---- MODULE Spec2Model ----
(***************************************************************************)
(* Transaction store of the finance dashboard server (server.impl.js):     *)
(* the bulk-replace handler POST /api/transactions, the list handler GET   *)
(* /api/transactions, and the two storage engines behind runAsync /        *)
(* allAsync / execAsync: the single SQLite connection `db` and the         *)
(* Postgres connection pool `pool`.                                        *)
(*                                                                         *)
(* One step of a handler is the code between two awaits: the completion of *)
(* the storage statement it was waiting for, plus the synchronous code up  *)
(* to the next await (or the response).                                    *)
(*                                                                         *)
(* Further parts: the detached regenerateDualCsv() that rewrites           *)
(* updated-financial-data.csv after a save (SpecRegen), the one-time CSV   *)
(* import of the SQLite-only version with its `settings` marker            *)
(* (SpecImport), and the startup chain: engine choice, initDb with the     *)
(* unique index, and the SQLite-to-Postgres migration (SpecBoot).          *)
(***************************************************************************)
EXTENDS Integers, Sequences, FiniteSets, TLC

VARIABLES
  usePg,       \* engine chosen at startup (part_003:13-29)
  allowEmpty,  \* process.env.ALLOW_EMPTY_SAVE === '1'
  db,          \* the SQLite connection: [rows, seq, inTxn, saved]
  pg,          \* Postgres and the pool: [rows, seq, cl, idle]
  req,         \* per request slot: the handler's position and locals
  served,      \* number of requests accepted so far
  faults,      \* storage failures still to be injected
  hist,        \* what the last completed mutation was (for stating claims)
  csv,         \* the file updated-financial-data.csv: [exists, lines]
  csvOf,       \* the rows read by the regenerate call that last wrote csv
  regens,      \* regenerateDualCsv() calls whose query is still pending
  settings,    \* the table `settings` of the import version: [done, saved]
  imp,         \* the import handler's position and locals
  boot,        \* the startup chain's position, configuration and locals
  sessions,    \* the Map `sessions`: sid -> [username, role]
  uuids,       \* number of ids crypto.randomUUID() has returned
  jar,         \* per client: the value of the cookie `sid` it sends
  login,       \* the last /api/login exchange: [mode, password, code]
  backupDir,   \* the names of the .db files in the directory `backups`
  clock,       \* the time new Date() returns
  unlinked,    \* the files the last backup run removed
  serverJs,    \* the text of server.js, by pieces (start.mjs)
  baks         \* the server.js.bak.<stamp> files: [at, content]

vars ==
  <<usePg, allowEmpty, db, pg, req, served, faults, hist, csv, csvOf, regens,
    settings, imp, boot, sessions, uuids, jar, login, backupDir, clock,
    unlinked, serverJs, baks>>

\* the session state of the server and of its clients
web == <<sessions, uuids, jar, login>>

\* the backup directory and the time
disk == <<backupDir, clock, unlinked, serverJs, baks>>

\* server.js and its backups
serverFile == <<serverJs, baks>>

\* the state the handlers of the transaction store leave alone
aux == <<settings, imp, boot, web, disk>>

(***************************************************************************)
(* Bounds                                                                  *)
(***************************************************************************)
MaxLen == 2      \* longest payload of a sequential replaceAll
MaxReqs == 2     \* requests accepted in one behaviour
MaxFaults == 1   \* injected storage failures in one behaviour

NULL == "null"   \* JS null / SQL NULL

(***************************************************************************)
(* Values of the bounded input domain                                      *)
(***************************************************************************)
D1 == "2024-01-01"
D2 == "2024-01-02"

\* rank of a date string under ORDER BY date (text comparison of ISO dates in
\* SQLite, DATE comparison in Postgres)
DateRank(d) == CASE d = D1 -> 1 [] d = D2 -> 2 [] OTHER -> 0

Num(n) == [k |-> "num", v |-> n, s |-> <<>>]      \* a JSON number
Str(s) == [k |-> "str", v |-> 0, s |-> s]         \* a JSON string, as characters
Other  == [k |-> "other", v |-> 0, s |-> <<>>]    \* true / null / missing

Obj(ty, nm, dt, am, by) ==
  [obj |-> TRUE, type |-> ty, name |-> nm, date |-> dt, amount |-> am,
   createdBy |-> by, updatedBy |-> by]

\* the JSON value null as an array element
NullEntry ==
  [obj |-> FALSE, type |-> "", name |-> "", date |-> "", amount |-> Other,
   createdBy |-> NULL, updatedBy |-> NULL]

Pay1     == Obj("income", "Pay", D1, Num(10), "alice")
Pay1Str  == Obj("income", "Pay", D1, Str(<<"$", "1", "0">>), "bob")
Rent     == Obj("expenditure", "Rent", D2, Num(5), NULL)
Gift     == Obj("income", "Gift", D2, Str(<<"-", "5", "x", "1">>), NULL)
NoType   == Obj("", "Pay", D1, Num(10), NULL)
BadType  == Obj("transfer", "Move", D1, Num(7), NULL)
NoName   == Obj("income", "", D1, Num(10), NULL)
NoDate   == Obj("income", "Pay", "", Num(10), NULL)
BadAmt   == Obj("expenditure", "Rent", D2, Str(<<"x", "$">>), NULL)
BoolAmt  == Obj("expenditure", "Rent", D2, Other, NULL)

Candidates ==
  {Pay1, Pay1Str, Rent, Gift, NoType, BadType, NoName, NoDate, BadAmt,
   BoolAmt, NullEntry}

(***************************************************************************)
(* Pure functions of the handler                                           *)
(***************************************************************************)
Digits == <<"0", "1", "2", "3", "4", "5", "6", "7", "8", "9">>
IsDigit(ch) == \E i \in 1..10 : Digits[i] = ch
DigitVal(ch) == (CHOOSE i \in 1..10 : Digits[i] = ch) - 1

\* t.amount.replace(/[^0-9.+-]/g,'')
KeepChar(ch) == IsDigit(ch) \/ ch \in {".", "+", "-"}
CleanAmount(s) == SelectSeq(s, KeepChar)

\* value of the longest run of digits of s starting at position i, continuing acc
RECURSIVE DigitRun(_, _, _)
DigitRun(s, i, acc) ==
  IF i <= Len(s) /\ IsDigit(s[i])
    THEN DigitRun(s, i + 1, 10 * acc + DigitVal(s[i]))
    ELSE acc

\* parseFloat on a cleaned string without a decimal point: optional sign, then
\* the longest prefix of digits; NaN when there is no digit
ParseFloat(s) ==
  LET signed == Len(s) >= 1 /\ s[1] \in {"+", "-"}
      first  == IF signed THEN 2 ELSE 1
      mag    == DigitRun(s, first, 0)
  IN  IF first <= Len(s) /\ IsDigit(s[first])
        THEN [k |-> "num", v |-> IF signed /\ s[1] = "-" THEN 0 - mag ELSE mag,
              s |-> <<>>]
        ELSE [k |-> "nan", v |-> 0, s |-> <<>>]

\* const amt = typeof t.amount === 'string' ? parseFloat(...) : t.amount
Amt(t) == IF t.amount.k = "str" THEN ParseFloat(CleanAmount(t.amount.s)) ELSE t.amount

\* the `continue` test of the insert loop
SkipsMut(t) == t.type = "" \/ t.name = "" \/ Amt(t).k # "num"
Skips(t) == t.type = "" \/ t.name = "" \/ t.date = "" \/ Amt(t).k # "num"

\* t.createdBy||t.created_by||null
Author(a) == IF a = "" THEN NULL ELSE a

\* the parameter list of the INSERT
InsertParams(t) ==
  [type |-> t.type, name |-> t.name, date |-> t.date, amount |-> Amt(t).v,
   created_by |-> Author(t.createdBy), updated_by |-> Author(t.updatedBy)]

(***************************************************************************)
(* The table `transactions`                                                *)
(***************************************************************************)
Types == {"income", "expenditure"}     \* CHECK (type IN ('income','expenditure'))

Tuple(r) == <<r.type, r.name, r.date, r.amount>>   \* transactions_unique_idx

MkRow(id, p) ==
  [id |-> id, type |-> p.type, name |-> p.name, date |-> p.date,
   amount |-> p.amount, created_by |-> p.created_by, updated_by |-> p.updated_by]

Conflicts(rows, p) == \E r \in rows : Tuple(r) = Tuple(p)

(***************************************************************************)
(* File engine: the one sqlite3.Database connection shared by every        *)
(* handler.  A statement result is [err, db].                              *)
(***************************************************************************)
NoSaved == [rows |-> {}, seq |-> 0]

SqOk(d)  == [err |-> FALSE, db |-> d]
SqErr(d) == [err |-> TRUE, db |-> d]

\* BEGIN: "cannot start a transaction within a transaction"
SqBegin(d) ==
  IF d.inTxn THEN SqErr(d)
  ELSE SqOk([d EXCEPT !.inTxn = TRUE, !.saved = [rows |-> d.rows, seq |-> d.seq]])

\* COMMIT: "cannot commit - no transaction is active"
SqCommit(d) ==
  IF d.inTxn THEN SqOk([d EXCEPT !.inTxn = FALSE, !.saved = NoSaved]) ELSE SqErr(d)

\* ROLLBACK: "cannot rollback - no transaction is active"
SqRollback(d) ==
  IF d.inTxn
    THEN SqOk([d EXCEPT !.rows = d.saved.rows, !.seq = d.saved.seq,
                        !.inTxn = FALSE, !.saved = NoSaved])
    ELSE SqErr(d)

\* DELETE FROM transactions (inside the open transaction, or autocommitted)
SqDelete(d) == SqOk([d EXCEPT !.rows = {}])

\* INSERT OR IGNORE: a row violating the CHECK or the unique index is skipped
SqInsertNoIndex(d, p) ==
  IF p.type \notin Types
    THEN SqOk(d)
    ELSE SqOk([d EXCEPT !.rows = @ \cup {MkRow(d.seq + 1, p)}, !.seq = @ + 1])
SqInsertReplace(d, p) ==
  IF p.type \notin Types
    THEN SqOk(d)
    ELSE SqOk([d EXCEPT !.rows = {r \in @ : Tuple(r) # Tuple(p)} \cup {MkRow(d.seq + 1, p)},
                        !.seq = @ + 1])
SqInsert(d, p) ==
  IF p.type \notin Types \/ Conflicts(d.rows, p)
    THEN SqOk(d)
    ELSE SqOk([d EXCEPT !.rows = @ \cup {MkRow(d.seq + 1, p)}, !.seq = @ + 1])

(***************************************************************************)
(* Network engine: the pg Pool.  pool.query runs each statement on a       *)
(* client the pool hands out; a transaction belongs to one client.  idle   *)
(* is pool.idle, the idle clients in the order they were released; wait is *)
(* the pool's pending queue, the requests whose query waits for a client;  *)
(* max is the pool's size (the option `max`, 10 when not set), counted in  *)
(* clients per request slot of the model.                                  *)
(* cl[c] = [st, del, ins]: st is "idle", "txn" or "aborted"; del the ids   *)
(* the client's open transaction deleted, ins the rows it inserted.        *)
(* A statement result is [err, pg].                                        *)
(***************************************************************************)
Clients == {"c1", "c2"}
PoolSize == 2      \* a pool that is never full: one client per request slot
SmallPool == 1     \* a pool with fewer clients than requests in flight
NoClient == "none"
FreshClient == [st |-> "idle", del |-> {}, ins |-> {}]

PgOk(g)  == [err |-> FALSE, pg |-> g]
PgErr(g) == [err |-> TRUE, pg |-> g]

\* rows a statement of client c sees (READ COMMITTED)
PgView(g, c) == {r \in g.rows : r.id \notin g.cl[c].del} \cup g.cl[c].ins

\* an error inside a transaction block aborts the block
PgFail(g, c) ==
  PgErr(IF g.cl[c].st = "txn" THEN [g EXCEPT !.cl[c].st = "aborted"] ELSE g)

\* BEGIN: a warning inside a transaction; an error in an aborted one
PgBegin(g, c) ==
  CASE g.cl[c].st = "idle"    -> PgOk([g EXCEPT !.cl[c].st = "txn"])
    [] g.cl[c].st = "txn"     -> PgOk(g)
    [] g.cl[c].st = "aborted" -> PgErr(g)

\* COMMIT: makes the block's changes durable; ends an aborted block as a
\* rollback; a warning outside a block
PgCommit(g, c) ==
  CASE g.cl[c].st = "txn" ->
         PgOk([g EXCEPT !.rows = PgView(g, c), !.cl[c] = FreshClient])
    [] OTHER -> PgOk([g EXCEPT !.cl[c] = FreshClient])

\* ROLLBACK: discards the block's changes; a warning outside a block
PgRollback(g, c) == PgOk([g EXCEPT !.cl[c] = FreshClient])

\* ids whose rows another client's open transaction has deleted: row locks
PgLocked(g, c) == UNION {g.cl[o].del : o \in Clients \ {c}}

\* DELETE FROM transactions, with the committed rows `snap` (ids) of the
\* statement's snapshot: waits for the row locks of other transactions
PgDeleteBlocked(g, c, snap) ==
  \E r \in g.rows : r.id \in snap /\ r.id \in PgLocked(g, c)

PgDelete(g, c, snap) ==
  LET target == {r.id : r \in {x \in g.rows : x.id \in snap}}
  IN  CASE g.cl[c].st = "aborted" -> PgErr(g)
        [] g.cl[c].st = "txn" ->
             PgOk([g EXCEPT !.cl[c].del = @ \cup target, !.cl[c].ins = {}])
        [] OTHER -> PgOk([g EXCEPT !.rows = {r \in @ : r.id \notin target}])

\* INSERT ... ON CONFLICT (type,name,date,amount) DO NOTHING: waits while the
\* conflicting row belongs to another client's open transaction
PgInsertBlocked(g, c, p) ==
  \/ \E o \in Clients \ {c} : Conflicts(g.cl[o].ins, p)
  \/ \E r \in g.rows : Tuple(r) = Tuple(p) /\ r.id \in PgLocked(g, c)

PgInsertNoCheck(g, c, p) ==
  LET g1 == [g EXCEPT !.seq = @ + 1]
      row == MkRow(g.seq + 1, p)
  IN  CASE g.cl[c].st = "aborted" -> PgErr(g)
        [] Conflicts(PgView(g, c), p) -> PgOk(g1)
        [] g.cl[c].st = "txn" -> PgOk([g1 EXCEPT !.cl[c].ins = @ \cup {row}])
        [] OTHER -> PgOk([g1 EXCEPT !.rows = @ \cup {row}])
PgInsert(g, c, p) ==
  LET g1 == [g EXCEPT !.seq = @ + 1]
      row == MkRow(g.seq + 1, p)
  IN  CASE g.cl[c].st = "aborted" -> PgErr(g)
        [] p.type \notin Types -> PgFail(g1, c)
        [] Conflicts(PgView(g, c), p) -> PgOk(g1)
        [] g.cl[c].st = "txn" -> PgOk([g1 EXCEPT !.cl[c].ins = @ \cup {row}])
        [] OTHER -> PgOk([g1 EXCEPT !.rows = @ \cup {row}])

(***************************************************************************)
(* Request slots                                                           *)
(***************************************************************************)
Handlers == {1, 2}

\* request bodies: `transactions` is the array tx, or is no array
Bodies(P) == {[arr |-> TRUE, tx |-> t] : t \in P} \cup {[arr |-> FALSE, tx |-> <<>>]}

NoHist == [ok |-> FALSE, tx |-> <<>>]

\* positions of the bulk-replace handler at which it awaits a storage statement
StmtPcs == {"count", "begin", "delete", "insert", "commit", "rollback"}

\* op, pc: the handler and its position; arr, tx: the request body; i: the loop
\* index; cli, snap: the pool client and snapshot of the pending statement;
\* code, out: the response; regen: regenerateDualCsv() was called;
\* pre: the stored rows when the request was accepted; failed: the positions
\* whose statement rejected; txc: the pool client on which BEGIN ran
IdleReq ==
  [op |-> "none", pc |-> "idle", arr |-> FALSE, tx |-> <<>>, i |-> 0,
   cli |-> NoClient, snap |-> {}, code |-> 0, out |-> <<>>, regen |-> FALSE,
   pre |-> {}, failed |-> {}, txc |-> NoClient]

InFlight(h) == req[h].pc \in StmtPcs

\* what a read on a quiescent system returns
Store == IF usePg THEN pg.rows ELSE db.rows

Ids(rows) == {r.id : r \in rows}

\* clients checked out for the pending statements of the other requests
Held(h) == {req[o].cli : o \in Handlers \ {h}} \ {NoClient}

Range(q) == {q[k] : k \in 1..Len(q)}

\* pool.query when pool.idle is q: the pool hands out the idle client released
\* last, or connects a new client when none is idle
Acquire(q, h) ==
  IF q # <<>> THEN q[Len(q)]
  ELSE CHOOSE c \in Clients : c \notin Held(h)

\* pool.idle once client c is released
Release(q, c) == IF c = NoClient THEN q ELSE Append(q, c)

\* pool.idle once client c is checked out
Checkout(q, c) == SelectSeq(q, LAMBDA x : x # c)

\* the statement handler h awaited has completed, leaving the server as g: its
\* client goes back to the pool and the handler moves to position r; when r
\* awaits another statement of the network engine, pool.query checks a client
\* out for it.  A released client goes first to the query that heads the pending
\* queue; a query that finds no idle client and the pool full joins the queue
Await(h, r, g) ==
  LET back   == req[h].cli
      handed == usePg /\ back # NoClient /\ g.wait # <<>>
      w      == Head(g.wait)
      rq     == IF handed
                  THEN [req EXCEPT ![w].cli = back,
                                   ![w].snap = IF req[w].pc = "delete"
                                                 THEN Ids(g.rows) ELSE {}]
                  ELSE req
      q      == IF handed THEN g.idle ELSE Release(g.idle, back)
      wt     == IF handed THEN Tail(g.wait) ELSE g.wait
      held   == {rq[o].cli : o \in Handlers \ {h}} \ {NoClient}
      full   == q = <<>> /\ Cardinality(held) >= g.max
      c      == Acquire(q, h)
  IN  IF usePg /\ r.pc \in StmtPcs /\ ~full
        THEN /\ req' = [rq EXCEPT ![h] =
                          [r EXCEPT !.cli = c,
                                    !.snap = IF r.pc = "delete" THEN Ids(g.rows) ELSE {}]]
             /\ pg' = [g EXCEPT !.idle = Checkout(q, c), !.wait = wt]
        ELSE /\ req' = [rq EXCEPT ![h] = [r EXCEPT !.cli = NoClient, !.snap = {}]]
             /\ pg' = [g EXCEPT !.idle = q,
                                !.wait = IF usePg /\ r.pc \in StmtPcs
                                           THEN Append(wt, h) ELSE wt]

(***************************************************************************)
(* GET /api/transactions                                                   *)
(***************************************************************************)
\* ORDER BY date DESC, id DESC
ListBefore(x, y) ==
  \/ DateRank(x.date) > DateRank(y.date)
  \/ DateRank(x.date) = DateRank(y.date) /\ x.id > y.id

RECURSIVE ListOrderAsc(_)
ListOrderAsc(S) ==
  IF S = {} THEN <<>>
  ELSE LET m == CHOOSE x \in S : \A y \in S \ {x} : ListBefore(y, x)
       IN  <<m>> \o ListOrderAsc(S \ {m})
RECURSIVE ListOrder(_)
ListOrder(S) ==
  IF S = {} THEN <<>>
  ELSE LET m == CHOOSE x \in S : \A y \in S \ {x} : ListBefore(x, y)
       IN  <<m>> \o ListOrder(S \ {m})

\* rows.map(r => ({ id, type, name, date, amount, createdBy, updatedBy }))
Mapped(r) ==
  [id |-> r.id, type |-> r.type, name |-> r.name, date |-> r.date,
   amount |-> r.amount, createdBy |-> r.created_by, updatedBy |-> r.updated_by]

ListResult(rows) == [k \in 1..Cardinality(rows) |-> Mapped(ListOrder(rows)[k])]

Respond(r, code, out) ==
  [r EXCEPT !.pc = "done", !.code = code, !.out = out, !.cli = NoClient, !.snap = {}]

\* the request is accepted and its one query completes
List(h) ==
  /\ req[h].pc \in {"idle", "done"}
  /\ served < MaxReqs
  /\ served' = served + 1
  /\ LET r == [IdleReq EXCEPT !.op = "list", !.pre = Store]
     IN  \/ /\ ~usePg
            /\ req' = [req EXCEPT ![h] = Respond(r, 200, ListResult(db.rows))]
            /\ UNCHANGED <<pg, faults>>
         \/ /\ usePg
            /\ LET c == Acquire(pg.idle, h)
               IN  /\ pg' = [pg EXCEPT !.idle = Release(Checkout(@, c), c)]
                   /\ req' = [req EXCEPT ![h] =
                                IF pg.cl[c].st = "aborted"
                                  THEN Respond(r, 500, <<>>)
                                  ELSE Respond(r, 200, ListResult(PgView(pg, c)))]
            /\ UNCHANGED faults
         \/ /\ faults > 0
            /\ faults' = faults - 1
            /\ req' = [req EXCEPT ![h] = Respond([r EXCEPT !.failed = {"list"}], 500, <<>>)]
            /\ UNCHANGED pg
  /\ UNCHANGED <<usePg, allowEmpty, db, hist, csv, csvOf, regens, aux>>

(***************************************************************************)
(* POST /api/transactions (bulk replace)                                   *)
(***************************************************************************)
\* the for loop up to its next await: invalid candidates are skipped with
\* `continue`; reading t.amount of a null entry throws a TypeError
RECURSIVE NextIdx(_, _)
NextIdx(tx, i) ==
  IF i > Len(tx) THEN i
  ELSE IF ~tx[i].obj \/ ~Skips(tx[i]) THEN i
  ELSE NextIdx(tx, i + 1)

\* the catch block up to its await of ROLLBACK
CatchNoRollback(r) == Respond(r, 500, <<>>)
Catch(r) == [r EXCEPT !.pc = "rollback"]

Loop(r, i) ==
  LET j == NextIdx(r.tx, i)
  IN  IF j > Len(r.tx) THEN [r EXCEPT !.pc = "commit", !.i = j]
      ELSE IF ~r.tx[j].obj THEN Catch([r EXCEPT !.i = j])
      ELSE [r EXCEPT !.pc = "insert", !.i = j]

\* the empty-save guard
RefusesNoGuard(r, n) == FALSE
RefusesAnyEmpty(r, n) == Len(r.tx) = 0 /\ n > 0
Refuses(r, n) == ~allowEmpty /\ Len(r.tx) = 0 /\ n > 0

\* the handler's position after its pending statement completed with `err`;
\* n is the COUNT(*) a completed count query returned
PostNext(r, err, n) ==
  CASE r.pc = "rollback" -> Respond(r, 500, <<>>)
    [] err -> Catch(r)
    [] r.pc = "count" ->
         IF Refuses(r, n) THEN Respond(r, 400, <<>>) ELSE [r EXCEPT !.pc = "begin"]
    [] r.pc = "begin" -> [r EXCEPT !.pc = "delete", !.txc = r.cli]
    [] r.pc = "delete" -> Loop(r, 1)
    [] r.pc = "insert" -> Loop(r, r.i + 1)
    [] r.pc = "commit" -> Respond([r EXCEPT !.regen = TRUE], 200, <<>>)

\* the pending statement of request h on the file engine: [err, db, n]
SqExec(r) ==
  LET res == CASE r.pc = "count"    -> SqOk(db)
               [] r.pc = "begin"    -> SqBegin(db)
               [] r.pc = "delete"   -> SqDelete(db)
               [] r.pc = "insert"   -> SqInsert(db, InsertParams(r.tx[r.i]))
               [] r.pc = "commit"   -> SqCommit(db)
               [] r.pc = "rollback" -> SqRollback(db)
  IN  [err |-> res.err, db |-> res.db, n |-> Cardinality(db.rows)]

\* the pending statement of request h on the network engine: [err, pg, n]
PgExec(r) ==
  LET c == r.cli
      res == CASE r.pc = "count" ->
                    IF pg.cl[c].st = "aborted" THEN PgErr(pg) ELSE PgOk(pg)
               [] r.pc = "begin"    -> PgBegin(pg, c)
               [] r.pc = "delete"   -> PgDelete(pg, c, r.snap)
               [] r.pc = "insert"   -> PgInsert(pg, c, InsertParams(r.tx[r.i]))
               [] r.pc = "commit"   -> PgCommit(pg, c)
               [] r.pc = "rollback" -> PgRollback(pg, c)
  IN  [err |-> res.err, pg |-> res.pg, n |-> Cardinality(PgView(pg, c))]

\* the pending statement waits for a row lock of another transaction
PgBlocked(r) ==
  \/ r.pc = "delete" /\ pg.cl[r.cli].st # "aborted"
       /\ PgDeleteBlocked(pg, r.cli, r.snap)
  \/ r.pc = "insert" /\ pg.cl[r.cli].st # "aborted"
       /\ PgInsertBlocked(pg, r.cli, InsertParams(r.tx[r.i]))

\* the last replaceAll that answered 200, until the next one is accepted
Record(r) ==
  IF r.pc = "done" /\ r.code = 200 THEN [ok |-> TRUE, tx |-> r.tx] ELSE hist

\* regenerateDualCsv() is called, not awaited, once COMMIT has resolved: the
\* call issues its query and returns a pending promise
Called(r) == IF r.regen THEN regens + 1 ELSE regens

\* the request notes that its pending statement rejected
Failed(r, err) == IF err THEN [r EXCEPT !.failed = @ \cup {r.pc}] ELSE r

\* the request is accepted: body check, then the count query is issued
StartPost(h, P) ==
  /\ req[h].pc \in {"idle", "done"}
  /\ served < MaxReqs
  /\ served' = served + 1
  /\ \E body \in Bodies(P) :
       LET r == [IdleReq EXCEPT !.op = "post", !.arr = body.arr, !.tx = body.tx,
                                !.pre = Store]
       IN  IF ~body.arr
             THEN /\ req' = [req EXCEPT ![h] = Respond(r, 400, <<>>)]
                  /\ UNCHANGED <<pg, hist>>
             ELSE /\ Await(h, [r EXCEPT !.pc = "count"], pg)
                  /\ hist' = NoHist
  /\ UNCHANGED <<usePg, allowEmpty, db, faults, csv, csvOf, regens, aux>>

\* the pending statement completes and the handler runs to its next await
PostStep(h) ==
  /\ req[h].op = "post" /\ InFlight(h)
  /\ IF usePg
       THEN /\ req[h].cli # NoClient
            /\ ~PgBlocked(req[h])
            /\ LET x == PgExec(req[h])
                   r == PostNext(Failed(req[h], x.err), x.err, x.n)
               IN  Await(h, r, x.pg) /\ hist' = Record(r) /\ regens' = Called(r)
            /\ UNCHANGED db
       ELSE LET x == SqExec(req[h])
                r == PostNext(Failed(req[h], x.err), x.err, x.n)
            IN  /\ db' = x.db
                /\ Await(h, r, pg)
                /\ hist' = Record(r)
                /\ regens' = Called(r)
  /\ UNCHANGED <<usePg, allowEmpty, served, faults, csv, csvOf, aux>>

\* the pending statement fails (I/O error, lost connection): it has no effect
\* and its promise rejects
PostFault(h) ==
  /\ req[h].op = "post" /\ InFlight(h)
  /\ usePg => req[h].cli # NoClient
  /\ faults > 0
  /\ faults' = faults - 1
  /\ LET r == PostNext(Failed(req[h], TRUE), TRUE, 0)
     IN  /\ Await(h, r, IF usePg THEN PgFail(pg, req[h].cli).pg ELSE pg)
         /\ hist' = Record(r)
  /\ UNCHANGED <<usePg, allowEmpty, db, served, csv, csvOf, regens, aux>>

(***************************************************************************)
(* Text.  A string is written as the sequence of its symbols: a symbol is  *)
(* one character, or a run of letters written as one symbol (split(','),   *)
(* trim() and parseFloat treat all letters alike).                         *)
(***************************************************************************)
CommaName == "A,B"     \* a name holding a comma
BreakName == "A\nB"    \* a name holding a line break

Strings ==
  {"", "Pay", "Rent", "Gift", "Move", "A", "B", CommaName, BreakName, D1, D2}

Chars(s) ==
  CASE s = ""        -> <<>>
    [] s = CommaName -> <<"A", ",", "B">>
    [] s = BreakName -> <<"A", "\n", "B">>
    [] s = D1        -> <<"2", "0", "2", "4", "-", "0", "1", "-", "0", "1">>
    [] s = D2        -> <<"2", "0", "2", "4", "-", "0", "1", "-", "0", "2">>
    [] OTHER         -> <<s>>

\* the string with the symbols cs
Text(cs) == CHOOSE s \in Strings : Chars(s) = cs

\* `${n}` of a whole number
RECURSIVE NatChars(_)
NatChars(n) ==
  IF n < 10 THEN <<Digits[n + 1]>>
  ELSE Append(NatChars(n \div 10), Digits[(n % 10) + 1])

NumChars(n) == IF n < 0 THEN <<"-">> \o NatChars(0 - n) ELSE NatChars(n)

\* `${r.date}`: the file engine returns the TEXT it stored; pg returns a DATE
\* as a JS Date, which prints as Date.prototype.toString()
DateChars(d) ==
  IF ~usePg THEN Chars(d)
  ELSE (IF d = D1 THEN <<"Mon", " ", "Jan", " ", "0", "1">>
                  ELSE <<"Tue", " ", "Jan", " ", "0", "2">>)
       \o <<" ", "2", "0", "2", "4", " ", "0", "0", ":", "0", "0", ":", "0", "0",
            " ", "GMT", "+", "0", "0", "0", "0", " ", "(", "UTC", ")">>

Commas(n) == [k \in 1..n |-> ","]

\* line.split(',')
RECURSIVE Split(_)
Split(cs) ==
  IF \A k \in 1..Len(cs) : cs[k] # "," THEN <<cs>>
  ELSE LET k == CHOOSE j \in 1..Len(cs) :
                  cs[j] = "," /\ \A m \in 1..(j - 1) : cs[m] # ","
       IN  <<SubSeq(cs, 1, k - 1)>> \o Split(SubSeq(cs, k + 1, Len(cs)))

(***************************************************************************)
(* regenerateDualCsv                                                       *)
(***************************************************************************)
NoFile == [exists |-> FALSE, lines |-> <<>>]

\* ORDER BY id ASC
RECURSIVE ById(_)
ById(S) ==
  IF S = {} THEN <<>>
  ELSE LET m == CHOOSE x \in S : \A y \in S : x.id <= y.id
       IN  <<m>> \o ById(S \ {m})

\* rows.filter(r => r.type === ty)
OfType(rows, ty) == SelectSeq(ById(rows), LAMBDA r : r.type = ty)

\* 'Expenditure,,,,,,,Income,,,,,,,'
Header1 == <<"Expenditure">> \o Commas(7) \o <<"Income">> \o Commas(7)

\* 'Name,Date,Amount,Quantity,,Name,Date,Amount,,,,,,,'
Header2 ==
  <<"Name", ",", "Date", ",", "Amount", ",", "Quantity", ",", ",",
    "Name", ",", "Date", ",", "Amount">> \o Commas(7)

\* `${x.name||''},${x.date||''},${x.amount!=null?x.amount:''}` where x is
\* list[i] || {}  (i counted from 1)
Side(list, i) ==
  IF i > Len(list) THEN Commas(2)
  ELSE Chars(list[i].name) \o <<",">> \o DateChars(list[i].date) \o <<",">>
         \o NumChars(list[i].amount)

Max(a, b) == IF a >= b THEN a ELSE b

\* the text regenerateDualCsv builds from the rows its query returned, by line
DualCsv(rows) ==
  LET expenditures == OfType(rows, "expenditure")
      incomes      == OfType(rows, "income")
      max          == Max(Len(expenditures), Len(incomes))
  IN  <<Header1, Header2>> \o
      [i \in 1..max |->
         Side(expenditures, i) \o Commas(3) \o Side(incomes, i) \o Commas(5)]

\* fs.writeFileSync(path, text): the file is replaced
WriteFileAppend(f, lines) == [exists |-> TRUE, lines |-> f.lines \o lines]
WriteFile(f, lines) == [exists |-> TRUE, lines |-> lines]

\* the rows `SELECT * FROM transactions` returns to a detached call: on the
\* file engine the shared connection's view, on the network engine the view
\* of the client pool.query hands out
RegenClient == Acquire(pg.idle, 0)
RegenRows == IF usePg THEN PgView(pg, RegenClient) ELSE db.rows
RegenQueryFails == usePg /\ pg.cl[RegenClient].st = "aborted"

\* the pool after the query of a detached call
RegenPool ==
  IF usePg
    THEN [pg EXCEPT !.idle = Release(Checkout(@, RegenClient), RegenClient)]
    ELSE pg

\* the catch block of regenerateDualCsv: console.warn, nothing is thrown on;
\* rq are the request slots
RegenRethrow(rq) ==
  [h \in Handlers |-> IF rq[h].regen THEN [rq[h] EXCEPT !.code = 500] ELSE rq[h]]
RegenCatch(rq) == rq

\* a pending call's query completes; the rest of the function is synchronous:
\* the text is built and written, or the catch block logs the query's error
RegenStep ==
  /\ regens > 0
  /\ regens' = regens - 1
  /\ pg' = RegenPool
  /\ IF RegenQueryFails
       THEN UNCHANGED <<csv, csvOf>>
       ELSE /\ csv' = WriteFile(csv, DualCsv(RegenRows))
            /\ csvOf' = RegenRows
  /\ UNCHANGED <<usePg, allowEmpty, db, req, served, faults, hist, aux>>

\* a pending call fails: its query rejects, or writeFileSync throws when it
\* opens the file (left as it was) or while it writes (a prefix of the text is
\* left); the catch block logs the error
RegenFault ==
  /\ regens > 0
  /\ faults > 0
  /\ regens' = regens - 1
  /\ faults' = faults - 1
  /\ \/ UNCHANGED <<pg, csv, csvOf>>
     \/ /\ ~RegenQueryFails
        /\ pg' = RegenPool
        /\ UNCHANGED <<csv, csvOf>>
     \/ /\ ~RegenQueryFails
        /\ pg' = RegenPool
        /\ \E k \in 0..(Len(DualCsv(RegenRows)) - 1) :
             csv' = WriteFile(csv, SubSeq(DualCsv(RegenRows), 1, k))
        /\ csvOf' = RegenRows
  /\ req' = RegenCatch(req)
  /\ UNCHANGED <<usePg, allowEmpty, db, served, hist, aux>>

(***************************************************************************)
(* GET /api/transactions.csv                                               *)
(***************************************************************************)
\* ORDER BY date ASC, id ASC
ExportBefore(x, y) ==
  \/ DateRank(x.date) < DateRank(y.date)
  \/ DateRank(x.date) = DateRank(y.date) /\ x.id < y.id

RECURSIVE ExportOrder(_)
ExportOrder(S) ==
  IF S = {} THEN <<>>
  ELSE LET m == CHOOSE x \in S : \A y \in S \ {x} : ExportBefore(x, y)
       IN  <<m>> \o ExportOrder(S \ {m})

\* 'type,name,date,amount,created_by,updated_by\n'
ExportHeader ==
  <<"type", ",", "name", ",", "date", ",", "amount", ",", "created_by", ",",
    "updated_by", "\n">>

\* (r.name||'').replace(/,/g,' ')
NoCommas(cs) == [k \in 1..Len(cs) |-> IF cs[k] = "," THEN " " ELSE cs[k]]

\* r.created_by||''
AuthorChars(a) == IF a = NULL THEN <<>> ELSE <<a>>

\* the text one pass of the loop appends
ExportLine(r) ==
  <<r.type, ",">> \o NoCommas(Chars(r.name)) \o <<",">> \o DateChars(r.date)
    \o <<",">> \o NumChars(r.amount) \o <<",">> \o AuthorChars(r.created_by)
    \o <<",">> \o AuthorChars(r.updated_by) \o <<"\n">>

RECURSIVE ExportBody(_)
ExportBody(rs) ==
  IF rs = <<>> THEN <<>> ELSE ExportLine(Head(rs)) \o ExportBody(Tail(rs))

\* the text sent for the rows the query returned
ExportText(rows) == ExportHeader \o ExportBody(ExportOrder(rows))

\* the request is accepted and its one query completes
Export(h) ==
  /\ req[h].pc \in {"idle", "done"}
  /\ served < MaxReqs
  /\ served' = served + 1
  /\ LET r == [IdleReq EXCEPT !.op = "export", !.pre = Store]
     IN  \/ /\ ~usePg
            /\ req' = [req EXCEPT ![h] = Respond(r, 200, ExportText(db.rows))]
            /\ UNCHANGED <<pg, faults>>
         \/ /\ usePg
            /\ LET c == Acquire(pg.idle, h)
               IN  /\ pg' = [pg EXCEPT !.idle = Release(Checkout(@, c), c)]
                   /\ req' = [req EXCEPT ![h] =
                                IF pg.cl[c].st = "aborted"
                                  THEN Respond(r, 500, <<>>)
                                  ELSE Respond(r, 200, ExportText(PgView(pg, c)))]
            /\ UNCHANGED faults
         \/ /\ faults > 0
            /\ faults' = faults - 1
            /\ req' = [req EXCEPT ![h] = Respond([r EXCEPT !.failed = {"export"}], 500, <<>>)]
            /\ UNCHANGED pg
  /\ UNCHANGED <<usePg, allowEmpty, db, hist, csv, csvOf, regens, aux>>

(***************************************************************************)
(* The import version (part_002): file engine only, the table has no       *)
(* unique index and no author columns, and the table `settings` holds the  *)
(* marker csv_import_done.  settings = [done, saved]: the marker as the    *)
(* connection sees it, and as it was when the open transaction began.      *)
(***************************************************************************)
NoSettings == [done |-> FALSE, saved |-> FALSE]

\* String.prototype.trim
RECURSIVE TrimLeft(_)
TrimLeft(cs) == IF cs # <<>> /\ cs[1] = " " THEN TrimLeft(Tail(cs)) ELSE cs

RECURSIVE TrimRight(_)
TrimRight(cs) ==
  IF cs # <<>> /\ cs[Len(cs)] = " " THEN TrimRight(SubSeq(cs, 1, Len(cs) - 1))
  ELSE cs

Trim(cs) == TrimRight(TrimLeft(cs))

\* (cols[k]||'').trim(), k counted from 0
Col(cols, k) == IF k + 1 <= Len(cols) THEN Trim(cols[k + 1]) ELSE <<>>

\* the parameter lists of the INSERTs one side of a line leads to: none when
\* the name or the date is empty or the amount does not parse
SideInserts(cols, k, ty) ==
  LET amt == ParseFloat(Col(cols, k + 2))
  IN  IF Col(cols, k) # <<>> /\ Col(cols, k + 1) # <<>> /\ amt.k = "num"
        THEN <<[type |-> ty, name |-> Text(Col(cols, k)),
                date |-> Text(Col(cols, k + 1)), amount |-> amt.v,
                created_by |-> NULL, updated_by |-> NULL]>>
        ELSE <<>>

\* one pass of the for loop: the expenditure side, then the income side
LineInserts(line) ==
  IF Trim(line) = <<>> THEN <<>>
  ELSE SideInserts(Split(line), 0, "expenditure")
         \o SideInserts(Split(line), 5, "income")

\* the INSERTs the loop over dataLines awaits, in order
RECURSIVE Todo(_)
Todo(lines) ==
  IF lines = <<>> THEN <<>> ELSE LineInserts(Head(lines)) \o Todo(Tail(lines))

\* INSERT INTO transactions (type,name,date,amount) VALUES (?,?,?,?)
SqInsertPlain(d, p) ==
  SqOk([d EXCEPT !.rows = @ \cup {MkRow(d.seq + 1, p)}, !.seq = @ + 1])

\* hasCsvImportRun: rows.length > 0
HasRunNever(s) == FALSE
HasRun(s) == s.done

\* pc: the handler's position; force: the argument of oneTimeCsvImport; todo,
\* i: the INSERTs of the loop and the next one; inserted: the counter; code,
\* res: the response; pre, preDone: the rows and the marker when the request
\* was accepted; failed: the positions whose statement rejected; ran: the
\* statements that completed
IdleImp ==
  [pc |-> "idle", force |-> FALSE, todo |-> <<>>, i |-> 0, inserted |-> 0,
   code |-> 0, res |-> [kind |-> "none", reason |-> "", inserted |-> 0],
   pre |-> {}, preDone |-> FALSE, failed |-> {}, ran |-> {}]

ImpPcs == {"check", "begin", "delete", "insert", "mark", "commit", "rollback"}

Skipped(reason) == [kind |-> "skipped", reason |-> reason, inserted |-> 0]

\* app.post('/api/import-csv-once'): 409 for a result skipped as already
\* done, 200 for every other result, 500 when oneTimeCsvImport throws
ImpStatusAll(res) ==
  CASE res.kind = "error" -> 500
    [] res.kind = "skipped" -> 409
    [] OTHER -> 200
ImpStatus(res) ==
  CASE res.kind = "error" -> 500
    [] res.kind = "skipped" /\ res.reason = "already" -> 409
    [] OTHER -> 200

ImpRespond(r, res) == [r EXCEPT !.pc = "done", !.res = res, !.code = ImpStatus(res)]

\* oneTimeCsvImport from the file checks up to its await of BEGIN
AfterCheck(r) ==
  IF ~csv.exists THEN ImpRespond(r, Skipped("file not found"))
  ELSE IF Len(csv.lines) <= 2 THEN ImpRespond(r, Skipped("no data rows"))
  ELSE [r EXCEPT !.pc = "begin", !.todo = Todo(SubSeq(csv.lines, 3, Len(csv.lines)))]

\* the for loop up to its next await
ImpLoop(r, i) ==
  IF i > Len(r.todo) THEN [r EXCEPT !.pc = "mark", !.i = i]
  ELSE [r EXCEPT !.pc = "insert", !.i = i]

\* the catch block up to its await of ROLLBACK
ImpCatchNoRollback(r) == ImpRespond(r, Skipped("failed"))
ImpCatch(r) == [r EXCEPT !.pc = "rollback"]

\* the handler's position after its pending statement completed with `err`
ImpNext(r, err) ==
  CASE r.pc = "check" ->
         IF err THEN ImpRespond(r, [Skipped("") EXCEPT !.kind = "error"])
         ELSE IF HasRun(settings) THEN ImpRespond(r, Skipped("already"))
         ELSE AfterCheck(r)
    [] r.pc = "begin" ->
         IF err THEN ImpRespond(r, [Skipped("") EXCEPT !.kind = "error"])
         ELSE [r EXCEPT !.pc = "delete"]
    [] r.pc = "rollback" -> ImpRespond(r, Skipped("failed"))
    [] err -> ImpCatch(r)
    [] r.pc = "delete" -> ImpLoop(r, 1)
    [] r.pc = "insert" -> ImpLoop([r EXCEPT !.inserted = @ + 1], r.i + 1)
    [] r.pc = "mark" -> [r EXCEPT !.pc = "commit"]
    [] r.pc = "commit" ->
         ImpRespond(r, [kind |-> "inserted", reason |-> "", inserted |-> r.inserted])

\* the pending statement of the import on the connection: [err, db]
ImpExec(r) ==
  CASE r.pc = "begin"    -> SqBegin(db)
    [] r.pc = "delete"   -> SqDelete(db)
    [] r.pc = "insert"   -> SqInsertPlain(db, r.todo[r.i])
    [] r.pc = "commit"   -> SqCommit(db)
    [] r.pc = "rollback" -> SqRollback(db)
    [] OTHER             -> SqOk(db)

\* the table `settings` after the pending statement: BEGIN notes the marker,
\* INSERT OR REPLACE sets it, ROLLBACK puts it back
ImpSettingsKept(r, err) ==
  CASE err -> settings
    [] r.pc = "begin"    -> [settings EXCEPT !.saved = settings.done]
    [] r.pc = "mark"     -> [settings EXCEPT !.done = TRUE]
    [] OTHER             -> settings
ImpSettings(r, err) ==
  CASE err -> settings
    [] r.pc = "begin"    -> [settings EXCEPT !.saved = settings.done]
    [] r.pc = "mark"     -> [settings EXCEPT !.done = TRUE]
    [] r.pc = "rollback" -> [settings EXCEPT !.done = settings.saved]
    [] OTHER             -> settings

ImpNote(r, err) ==
  IF err THEN [r EXCEPT !.failed = @ \cup {r.pc}] ELSE [r EXCEPT !.ran = @ \cup {r.pc}]

\* oneTimeCsvImport(force) is called: with force the marker is not queried
ImportStart(force) ==
  /\ imp.pc \in {"idle", "done"}
  /\ served < MaxReqs
  /\ served' = served + 1
  /\ LET r == [IdleImp EXCEPT !.force = force, !.pre = db.rows,
                              !.preDone = settings.done]
     IN  imp' = IF force THEN AfterCheck(r) ELSE [r EXCEPT !.pc = "check"]
  /\ UNCHANGED <<usePg, allowEmpty, db, pg, req, faults, hist, csv, csvOf,
                 regens, settings, boot, web, disk>>

\* the pending statement completes and the import runs to its next await
ImportStep ==
  /\ imp.pc \in ImpPcs
  /\ LET x == ImpExec(imp)
     IN  /\ db' = x.db
         /\ settings' = ImpSettings(imp, x.err)
         /\ imp' = ImpNext(ImpNote(imp, x.err), x.err)
  /\ UNCHANGED <<usePg, allowEmpty, pg, req, served, faults, hist, csv, csvOf,
                 regens, boot, web, disk>>

\* the pending statement fails: it has no effect and its promise rejects
ImportFault ==
  /\ imp.pc \in ImpPcs
  /\ faults > 0
  /\ faults' = faults - 1
  /\ imp' = ImpNext(ImpNote(imp, TRUE), TRUE)
  /\ UNCHANGED <<usePg, allowEmpty, db, pg, req, served, hist, csv, csvOf,
                 regens, settings, boot, web, disk>>

(***************************************************************************)
(* Startup: the choice of the engine, initDb with the optional migration,  *)
(* and the rest of the startup chain up to app.listen.  Nothing else runs  *)
(* before app.listen.  db.rows is the table in the SQLite file at DB_PATH  *)
(* (the migration's source when the network engine is chosen).             *)
(* boot.pgIndex / boot.sqIndex: transactions_unique_idx exists.            *)
(***************************************************************************)
\* url: DATABASE_URL is set; probe: `SELECT 1` succeeded; migrate:
\* PG_MIGRATE_FROM_SQLITE === '1'; backups: DB_BACKUPS === '1'; fileExists: the
\* SQLite file exists; pre: the active table when initDb began; preMig: the
\* network table when the migration read it; todo, i: the rows the migration
\* inserts and the next one; failed: the positions whose statement rejected
Booted ==
  [pc |-> "up", url |-> FALSE, probe |-> FALSE, migrate |-> FALSE,
   backups |-> FALSE, fileExists |-> FALSE, pgIndex |-> TRUE, sqIndex |-> TRUE,
   pre |-> {}, preMig |-> {}, todo |-> <<>>, i |-> 0, failed |-> {}]

\* let usePg = !!process.env.DATABASE_URL, set to false in the catch
EngineNoFallback(url, ok) == url
Engine(url, ok) == url /\ ok

\* the module body up to initDb(): the pool is created and probed, or the
\* SQLite connection opened
ChooseEngine ==
  /\ boot.pc = "probe"
  /\ \E ok \in BOOLEAN :
       /\ usePg' = Engine(boot.url, ok)
       /\ pg' = [pg EXCEPT !.idle = IF boot.url /\ ok THEN <<"c1">> ELSE <<>>]
       /\ boot' = [boot EXCEPT !.pc = "table", !.probe = boot.url /\ ok,
                               !.pre = IF usePg' THEN pg.rows ELSE db.rows]
  /\ UNCHANGED <<allowEmpty, db, req, served, faults, hist, csv, csvOf, regens,
                 settings, imp, web, disk>>

HasDuplicates(rows) ==
  \E r1, r2 \in rows : r1 # r2 /\ Tuple(r1) = Tuple(r2)

\* DELETE FROM transactions WHERE id NOT IN (SELECT MIN(id) FROM transactions
\* GROUP BY type,name,date,amount)
Dedupe(rows) ==
  {r \in rows : \A q \in rows : Tuple(q) = Tuple(r) => r.id <= q.id}

\* CREATE UNIQUE INDEX IF NOT EXISTS ... fails when the index is absent and
\* the table holds duplicates
IndexFails(rows, index) == ~index /\ HasDuplicates(rows)

(***************************************************************************)
(* start.mjs: the repair of server.js before it is imported.  The text is  *)
(* a sequence of pieces; the piece Marker is "import express from          *)
(* 'express'", which no other piece holds and which cannot overlap itself, *)
(* so an index into the pieces stands for the index of a piece's first     *)
(* character.  Indices count from 0; -1 is indexOf's "not found".          *)
(***************************************************************************)
MaxText == 4          \* pieces of the longest server.js
MaxStarts == 2        \* runs of start.mjs in one behaviour

Marker == "import express from 'express'"

Pieces == {Marker, "const app = express()", "app.listen(port)"}

\* server.js as shipped
Healthy == <<Marker, "const app = express()", "app.listen(port)">>

\* content.indexOf(marker, from)
RECURSIVE IndexOf(_, _)
IndexOf(content, from) ==
  IF from >= Len(content) THEN 0 - 1
  ELSE IF content[from + 1] = Marker THEN from
  ELSE IndexOf(content, from + 1)

\* const first = content.indexOf(marker)
First(content) == IndexOf(content, 0)

\* const second = content.indexOf(marker, first + 1)
SecondFromFirst(content) == IndexOf(content, First(content))
Second(content) == IndexOf(content, First(content) + 1)

\* content.slice(0, second)
Slice(content, end) == SubSeq(content, 1, end)

\* the prefixes a failed fs.writeFile can leave of the text it was writing
Prefixes(text) == {SubSeq(text, 1, k) : k \in 0..Len(text)}

\* the steps of the repair block that can throw
RepairSteps == {"read", "copy", "write"}

\* one run of the repair block with no failure, at the next time
Repair ==
  /\ clock < MaxStarts
  /\ clock' = clock + 1
  /\ IF Second(serverJs) # 0 - 1
       THEN /\ baks' = baks \cup {[at |-> clock', content |-> serverJs]}
            /\ serverJs' = Slice(serverJs, Second(serverJs))
       ELSE UNCHANGED <<serverJs, baks>>
  /\ UNCHANGED <<usePg, allowEmpty, db, pg, req, served, faults, hist, csv,
                 csvOf, regens, settings, imp, boot, web, backupDir, unlinked>>

\* one run in which readFile, copyFile or writeFile fails: the catch logs it
RepairFault ==
  /\ clock < MaxStarts
  /\ clock' = clock + 1
  /\ faults > 0
  /\ faults' = faults - 1
  /\ \E at \in RepairSteps :
       IF at = "write" /\ Second(serverJs) # 0 - 1
         THEN /\ baks' = baks \cup {[at |-> clock', content |-> serverJs]}
              /\ serverJs' \in {serverJs}
                     \cup Prefixes(Slice(serverJs, Second(serverJs)))
         ELSE UNCHANGED <<serverJs, baks>>
  /\ UNCHANGED <<usePg, allowEmpty, db, pg, req, served, hist, csv, csvOf,
                 regens, settings, imp, boot, web, backupDir, unlinked>>

\* a deployment appends a copy of the file to the file
Duplicate ==
  /\ 2 * Len(serverJs) <= MaxText
  /\ serverJs # <<>>
  /\ serverJs' = serverJs \o serverJs
  /\ UNCHANGED <<usePg, allowEmpty, db, pg, req, served, faults, hist, csv,
                 csvOf, regens, settings, imp, boot, web, backupDir, clock,
                 unlinked, baks>>

(***************************************************************************)
(* Backups (DB_BACKUPS=1 on the file engine): doBackup copies the database *)
(* file to backups/data-<stamp>.db and prunes the directory.  A file name  *)
(* is the sequence of digits of its stamp; time is counted in the unit of  *)
(* the stamp's last digit.                                                 *)
(***************************************************************************)
MaxClock == 26        \* latest time of a backup run

KeepBackups == 20

\* new Date().toISOString(): every field is zero-padded to a fixed width
Stamp(t) == <<t \div 10, t % 10>>

\* the time a file name carries
TimeOf(f) == 10 * f[1] + f[2]

\* the default comparison of Array.prototype.sort: by code units, a proper
\* prefix first
NameBefore(a, b) ==
  \/ \E k \in 1..Len(a) :
        /\ k <= Len(b) /\ a[k] < b[k]
        /\ \A m \in 1..(k - 1) : a[m] = b[m]
  \/ Len(a) < Len(b) /\ \A m \in 1..Len(a) : a[m] = b[m]

\* fs.readdirSync(backupDir).filter(f => f.endsWith('.db')).sort()
RECURSIVE SortNames(_)
SortNames(S) ==
  IF S = {} THEN <<>>
  ELSE LET f == CHOOSE x \in S : \A y \in S \ {x} : NameBefore(x, y)
       IN  <<f>> \o SortNames(S \ {f})

\* files.slice(0, files.length - 20) when files.length > 20
ExcessNewest(files) ==
  IF Len(files) > KeepBackups
    THEN {files[k] : k \in (KeepBackups + 1)..Len(files)} ELSE {}
Excess(files) ==
  IF Len(files) > KeepBackups
    THEN {files[k] : k \in 1..(Len(files) - KeepBackups)} ELSE {}

\* the backup directory is empty
NoDisk ==
  /\ backupDir = {} /\ clock = 0 /\ unlinked = {}
  /\ serverJs = Healthy /\ baks = {}

\* the steps of doBackup that can throw: a statement of the index block,
\* copyFileSync, readdirSync, unlinkSync
BackupSteps == {"index", "copy", "readdir", "unlink"}

\* the directory after a run at time t in which step `at` failed on file f
\* (at = "none": no step failed)
BackupRun(dir, t, at, f) ==
  LET all  == dir \cup {Stamp(t)}
      gone == Excess(SortNames(all))
  IN  CASE at = "copy"    -> [dir |-> dir, gone |-> {}]
        [] at = "readdir" -> [dir |-> all, gone |-> {}]
        [] at = "unlink"  -> [dir |-> all \ (gone \ {f}), gone |-> gone \ {f}]
        [] OTHER          -> [dir |-> all \ gone, gone |-> gone]

\* the index block of doBackup: CREATE UNIQUE INDEX IF NOT EXISTS, with
\* dedupe and a retry when it is rejected
BackupIndex(d, index, err) ==
  IF err \/ IndexFails(d.rows, index) THEN [d EXCEPT !.rows = Dedupe(@)] ELSE d

\* one run of doBackup, from setInterval, with no failure
DoBackup ==
  /\ ~usePg /\ boot.backups /\ boot.pc = "up"
  /\ \E t \in {clock, clock + 1} :
       /\ t <= MaxClock
       /\ clock' = t
       /\ backupDir' = BackupRun(backupDir, t, "none", <<>>).dir
       /\ unlinked' = BackupRun(backupDir, t, "none", <<>>).gone
  /\ db' = BackupIndex(db, boot.sqIndex, FALSE)
  /\ boot' = [boot EXCEPT !.sqIndex = TRUE]
  /\ UNCHANGED <<usePg, allowEmpty, pg, req, served, faults, hist, csv, csvOf,
                 regens, settings, imp, web, serverFile>>

\* one run of doBackup in which one step fails
DoBackupFault ==
  /\ ~usePg /\ boot.backups /\ boot.pc = "up"
  /\ faults > 0
  /\ faults' = faults - 1
  /\ \E t \in {clock, clock + 1}, at \in BackupSteps :
     \E f \in IF at = "unlink" THEN BackupRun(backupDir, t, "none", <<>>).gone
              ELSE {<<>>} :
       /\ t <= MaxClock
       /\ clock' = t
       /\ backupDir' = BackupRun(backupDir, t, at, f).dir
       /\ unlinked' = BackupRun(backupDir, t, at, f).gone
       /\ db' = BackupIndex(db, boot.sqIndex, at = "index")
  /\ boot' = [boot EXCEPT !.sqIndex = TRUE]
  /\ UNCHANGED <<usePg, allowEmpty, pg, req, served, hist, csv, csvOf, regens,
                 settings, imp, web, serverFile>>

\* the statements of the chain outside the migration, by position
ChainPcs ==
  {"table", "index", "dedupe", "reindex", "alter", "log", "backup",
   "late-index", "late-alter"}

\* the chain's position after the statement at b.pc settled, rejected when
\* err: only CREATE TABLE and, on the file engine, CREATE UNIQUE INDEX are
\* awaited outside a try
ChainNextCaught(b, net, err) ==
  CASE b.pc = "table"   -> "index"
    [] b.pc = "index"   -> IF net /\ err THEN "dedupe" ELSE "alter"
    [] b.pc = "dedupe"  -> IF err THEN "alter" ELSE "reindex"
    [] b.pc = "reindex" -> "alter"
    [] b.pc = "alter"   -> IF net /\ b.migrate THEN "mig-read" ELSE "log"
    [] b.pc = "log"     -> IF ~net /\ b.backups THEN "backup" ELSE "listen"
    [] b.pc = "backup"  -> "late-index"
    [] b.pc = "late-index" -> "late-alter"
    [] b.pc = "late-alter" -> "listen"
ChainNext(b, net, err) ==
  CASE b.pc = "table"   -> IF err THEN "exit" ELSE "index"
    [] b.pc = "index"   -> IF net THEN (IF err THEN "dedupe" ELSE "alter")
                           ELSE (IF err THEN "exit" ELSE "alter")
    [] b.pc = "dedupe"  -> IF err THEN "alter" ELSE "reindex"
    [] b.pc = "reindex" -> "alter"
    [] b.pc = "alter"   -> IF net /\ b.migrate THEN "mig-read" ELSE "log"
    [] b.pc = "log"     -> IF ~net /\ b.backups THEN "backup" ELSE "listen"
    [] b.pc = "backup"  -> "late-index"
    [] b.pc = "late-index" -> "late-alter"
    [] b.pc = "late-alter" -> "listen"

\* the chain moves on after its statement settled
ChainStep(b, net, err) ==
  [b EXCEPT !.pc = ChainNext(b, net, err),
            !.failed = IF err THEN @ \cup {b.pc} ELSE @]

\* initDb on the network engine: the table, the index with dedupe and one
\* retry, the author columns
InitDbPg ==
  /\ usePg
  /\ \/ /\ boot.pc \in {"table", "alter"}
        /\ boot' = ChainStep(boot, TRUE, FALSE)
        /\ UNCHANGED pg
     \/ /\ boot.pc = "index"
        /\ IF IndexFails(pg.rows, boot.pgIndex)
             THEN boot' = ChainStep(boot, TRUE, TRUE)
             ELSE boot' = [ChainStep(boot, TRUE, FALSE) EXCEPT !.pgIndex = TRUE]
        /\ UNCHANGED pg
     \/ /\ boot.pc = "dedupe"
        /\ pg' = [pg EXCEPT !.rows = Dedupe(@)]
        /\ boot' = ChainStep(boot, TRUE, FALSE)
     \/ /\ boot.pc = "reindex"
        /\ IF IndexFails(pg.rows, boot.pgIndex)
             THEN boot' = ChainStep(boot, TRUE, TRUE)
             ELSE boot' = [ChainStep(boot, TRUE, FALSE) EXCEPT !.pgIndex = TRUE]
        /\ UNCHANGED pg
  /\ UNCHANGED <<usePg, allowEmpty, db, req, served, faults, hist, csv, csvOf,
                 regens, settings, imp, web, disk>>

\* initDb on the file engine: the rejection of CREATE UNIQUE INDEX is not
\* caught, initDb() rejects and the chain's catch calls process.exit(1)
InitDbSqlite ==
  /\ ~usePg
  /\ \/ /\ boot.pc \in {"table", "alter"}
        /\ boot' = ChainStep(boot, FALSE, FALSE)
     \/ /\ boot.pc = "index"
        /\ IF IndexFails(db.rows, boot.sqIndex)
             THEN boot' = ChainStep(boot, FALSE, TRUE)
             ELSE boot' = [ChainStep(boot, FALSE, FALSE) EXCEPT !.sqIndex = TRUE]
  /\ UNCHANGED <<usePg, allowEmpty, db, pg, req, served, faults, hist, csv,
                 csvOf, regens, settings, imp, web, disk>>

\* logDbStatus: SELECT COUNT(*) and a console line
LogDbStatus ==
  /\ boot.pc = "log"
  /\ boot' = ChainStep(boot, usePg, FALSE)
  /\ UNCHANGED <<usePg, allowEmpty, db, pg, req, served, faults, hist, csv,
                 csvOf, regens, settings, imp, web, disk>>

\* `await doBackup()`: the first run, before app.listen
FirstBackup ==
  /\ ~usePg
  /\ boot.pc = "backup"
  /\ backupDir' = BackupRun(backupDir, clock, "none", <<>>).dir
  /\ unlinked' = BackupRun(backupDir, clock, "none", <<>>).gone
  /\ db' = BackupIndex(db, boot.sqIndex, FALSE)
  /\ boot' = [ChainStep(boot, FALSE, FALSE) EXCEPT !.sqIndex = TRUE]
  /\ UNCHANGED <<usePg, allowEmpty, pg, req, served, faults, hist, csv, csvOf,
                 regens, settings, imp, web, clock, serverFile>>

\* the chain after the first backup: the index is created once more, with
\* dedupe when that fails, and the author columns are added again
LateIndex ==
  /\ ~usePg
  /\ \/ /\ boot.pc = "late-index"
        /\ db' = BackupIndex(db, boot.sqIndex, FALSE)
        /\ boot' = [ChainStep(boot, FALSE, FALSE) EXCEPT !.sqIndex = TRUE]
     \/ /\ boot.pc = "late-alter"
        /\ boot' = ChainStep(boot, FALSE, FALSE)
        /\ UNCHANGED db
  /\ UNCHANGED <<usePg, allowEmpty, pg, req, served, faults, hist, csv, csvOf,
                 regens, settings, imp, web, disk>>

\* the statement or file operation at the chain's position fails for a
\* reason of its own (connection lost, disk full, permissions)
ChainFault ==
  /\ boot.pc \in ChainPcs
  /\ faults > 0
  /\ faults' = faults - 1
  /\ boot' = ChainStep(boot, usePg, TRUE)
  /\ \E at \in IF boot.pc = "backup" THEN BackupSteps ELSE {"none"} :
     \E f \in IF at = "unlink" THEN BackupRun(backupDir, clock, "none", <<>>).gone
              ELSE {<<>>} :
       /\ backupDir' = IF boot.pc = "backup"
                         THEN BackupRun(backupDir, clock, at, f).dir ELSE backupDir
       /\ unlinked' = IF boot.pc = "backup"
                        THEN BackupRun(backupDir, clock, at, f).gone ELSE unlinked
  /\ db' = IF boot.pc \in {"backup", "late-index"}
             THEN BackupIndex(db, boot.sqIndex, boot.pc = "late-index") ELSE db
  /\ UNCHANGED <<usePg, allowEmpty, pg, req, served, hist, csv, csvOf, regens,
                 settings, imp, web, clock, serverFile>>

\* INSERT INTO transactions (type,name,date,amount) VALUES ($1,$2,$3,$4): a
\* tuple the index already holds is a unique violation
PgInsertPlain(g, c, p) ==
  LET g1 == [g EXCEPT !.seq = @ + 1]
      row == MkRow(g.seq + 1, p)
  IN  CASE g.cl[c].st = "aborted" -> PgErr(g)
        [] Conflicts(PgView(g, c), p) -> PgFail(g1, c)
        [] g.cl[c].st = "txn" -> PgOk([g1 EXCEPT !.cl[c].ins = @ \cup {row}])
        [] OTHER -> PgOk([g1 EXCEPT !.rows = @ \cup {row}])

\* [r.type, r.name, r.date, r.amount]
MigParams(r) ==
  [type |-> r.type, name |-> r.name, date |-> r.date, amount |-> r.amount,
   created_by |-> NULL, updated_by |-> NULL]

\* parseInt(pgCount.rows[0].count,10) === 0 && rows.length
MigrateAlways(n, rows) == rows # {}
MigrateWanted(n, rows) == n = 0 /\ rows # {}

MigPcs == {"mig-begin", "mig-insert", "mig-commit", "mig-rollback"}

\* the migration's position after its pending statement completed with
\* `err`: BEGIN is outside the inner try, a rejected ROLLBACK leaves it
MigNext(b, err) ==
  CASE b.pc = "mig-begin" ->
         [b EXCEPT !.pc = IF err THEN "log"
                          ELSE IF b.todo = <<>> THEN "mig-commit" ELSE "mig-insert",
                   !.i = 1]
    [] b.pc = "mig-rollback" -> [b EXCEPT !.pc = "log"]
    [] err -> [b EXCEPT !.pc = "mig-rollback"]
    [] b.pc = "mig-insert" ->
         IF b.i < Len(b.todo) THEN [b EXCEPT !.i = @ + 1]
         ELSE [b EXCEPT !.pc = "mig-commit"]
    [] b.pc = "mig-commit" -> [b EXCEPT !.pc = "log"]

MigNote(b, err) == IF err THEN [b EXCEPT !.failed = @ \cup {b.pc}] ELSE b

\* the migration block of initDb: each statement goes through pool.query
Migrate ==
  /\ usePg
  /\ LET c == Acquire(pg.idle, 0)
     IN  \/ /\ boot.pc = "mig-read"
            /\ boot' =
                 IF boot.fileExists /\ MigrateWanted(Cardinality(PgView(pg, c)), db.rows)
                   THEN [boot EXCEPT !.pc = "mig-begin", !.todo = ById(db.rows),
                                     !.preMig = PgView(pg, c)]
                   ELSE [boot EXCEPT !.pc = "log", !.preMig = PgView(pg, c)]
            /\ UNCHANGED pg
         \/ /\ boot.pc \in MigPcs
            /\ LET x == CASE boot.pc = "mig-begin"    -> PgBegin(pg, c)
                          [] boot.pc = "mig-insert"   ->
                               PgInsertPlain(pg, c, MigParams(boot.todo[boot.i]))
                          [] boot.pc = "mig-commit"   -> PgCommit(pg, c)
                          [] boot.pc = "mig-rollback" -> PgRollback(pg, c)
               IN  /\ pg' = x.pg
                   /\ boot' = MigNext(MigNote(boot, x.err), x.err)
  /\ UNCHANGED <<usePg, allowEmpty, db, req, served, faults, hist, csv, csvOf,
                 regens, settings, imp, web, disk>>

\* the pending statement of the migration fails: it has no effect and its
\* promise rejects
MigrateFault ==
  /\ usePg
  /\ boot.pc \in MigPcs
  /\ faults > 0
  /\ faults' = faults - 1
  /\ pg' = PgFail(pg, Acquire(pg.idle, 0)).pg
  /\ boot' = MigNext(MigNote(boot, TRUE), TRUE)
  /\ UNCHANGED <<usePg, allowEmpty, db, req, served, hist, csv, csvOf, regens,
                 settings, imp, web, disk>>

\* app.listen: requests are served from here on
Listen ==
  /\ boot.pc = "listen"
  /\ boot' = [boot EXCEPT !.pc = "up"]
  /\ UNCHANGED <<usePg, allowEmpty, db, pg, req, served, faults, hist, csv,
                 csvOf, regens, settings, imp, web, disk>>

(***************************************************************************)
(* Sessions: sessionMiddleware, requireEditor, /api/login and /api/logout. *)
(* A sid is the number under which crypto.randomUUID() returned it; a      *)
(* client sends the cookie its jar holds.                                  *)
(***************************************************************************)
MaxSessions == 2      \* sessions created in one behaviour

ADMIN_PASSWORD == "8763951777"

NoCookie == 0         \* no Cookie header, or none named sid
BadCookie == 0 - 1    \* a sid whose percent-escape decodeURIComponent rejects

\* what a client can send: nothing, a sid issued at some time or never, or a
\* malformed value
Cookies == {BadCookie, NoCookie} \cup (1..(MaxSessions + 1))

NoSession == [username |-> NULL, role |-> "none"]
NoLogin == [mode |-> "", password |-> NULL, code |-> 0]

\* sessions is empty, no client holds a cookie
NoWeb ==
  /\ sessions = [s \in {} |-> NoSession]
  /\ uuids = 0
  /\ jar = [h \in Handlers |-> NoCookie]
  /\ login = NoLogin

\* sessionMiddleware: req.session is set when the Map has the sid
Session(ck) == IF ck \in DOMAIN sessions THEN sessions[ck] ELSE NoSession

\* requireEditor: next() or 403
RequireEditor(s) == s.role = "editor"

\* sessions.set(sid, v) and sessions.delete(sid)
MapSet(m, sid, v) == [s \in DOMAIN m \cup {sid} |-> IF s = sid THEN v ELSE m[s]]
MapDelete(m, sid) == [s \in DOMAIN m \ {sid} |-> m[s]]

\* password !== ADMIN_PASSWORD, negated
PasswordOk(pw) == pw = ADMIN_PASSWORD

\* the response to a request whose Cookie header parseCookies cannot decode:
\* sessionMiddleware throws and the default error handler answers 500
Thrown(r) == Respond(r, 500, <<>>)

\* POST /api/login from client h with { mode, password }
Login(h, mode, pw) ==
  /\ jar[h] # BadCookie
  /\ uuids < MaxSessions
  /\ CASE mode = "guest" ->
            /\ sessions' = MapSet(sessions, uuids + 1,
                                  [username |-> "guest", role |-> "guest"])
            /\ uuids' = uuids + 1
            /\ jar' = [jar EXCEPT ![h] = uuids + 1]
            /\ login' = [mode |-> mode, password |-> pw, code |-> 200]
       [] mode = "admin" /\ PasswordOk(pw) ->
            /\ sessions' = MapSet(sessions, uuids + 1,
                                  [username |-> "admin", role |-> "editor"])
            /\ uuids' = uuids + 1
            /\ jar' = [jar EXCEPT ![h] = uuids + 1]
            /\ login' = [mode |-> mode, password |-> pw, code |-> 200]
       [] mode = "admin" /\ ~PasswordOk(pw) ->
            /\ login' = [mode |-> mode, password |-> pw, code |-> 401]
            /\ UNCHANGED <<sessions, uuids, jar>>
       [] OTHER ->
            /\ login' = [mode |-> mode, password |-> pw, code |-> 400]
            /\ UNCHANGED <<sessions, uuids, jar>>
  /\ UNCHANGED <<usePg, allowEmpty, db, pg, req, served, faults, hist, csv,
                 csvOf, regens, settings, imp, boot, disk>>

\* POST /api/logout from client h: the sid is deleted and the cookie cleared
Logout(h) ==
  /\ jar[h] \notin {BadCookie, NoCookie}
  /\ sessions' = MapDelete(sessions, jar[h])
  /\ jar' = [jar EXCEPT ![h] = NoCookie]
  /\ UNCHANGED <<usePg, allowEmpty, db, pg, req, served, faults, hist, csv,
                 csvOf, regens, settings, imp, boot, uuids, login, disk>>

\* client h replaces the cookie it sends (a stale, foreign or made-up value)
SetCookie(h) ==
  /\ \E ck \in Cookies : ck # jar[h] /\ jar' = [jar EXCEPT ![h] = ck]
  /\ UNCHANGED <<usePg, allowEmpty, db, pg, req, served, faults, hist, csv,
                 csvOf, regens, settings, imp, boot, sessions, uuids, login, disk>>

\* the response of a request stopped before its handler
Stopped(h, code) ==
  /\ req[h].pc \in {"idle", "done"}
  /\ served < MaxReqs
  /\ served' = served + 1
  /\ req' = [req EXCEPT ![h] =
               IF code = 500 THEN Thrown([IdleReq EXCEPT !.op = "post", !.pre = Store])
               ELSE Respond([IdleReq EXCEPT !.op = "post", !.pre = Store], code, <<>>)]
  /\ UNCHANGED <<usePg, allowEmpty, db, pg, faults, hist, csv, csvOf, regens, aux>>

\* POST /api/transactions from client h through sessionMiddleware and
\* requireEditor
PostAuth(h, P) ==
  IF jar[h] = BadCookie THEN Stopped(h, 500)
  ELSE IF RequireEditor(Session(jar[h])) THEN StartPost(h, P)
  ELSE Stopped(h, 403)

(***************************************************************************)
(* Specifications                                                          *)
(***************************************************************************)
RECURSIVE SeqsUpTo(_, _)
SeqsUpTo(S, n) ==
  IF n = 0 THEN {<<>>}
  ELSE LET shorter == SeqsUpTo(S, n - 1)
       IN  shorter \cup {Append(p, c) : p \in shorter, c \in S}

\* payloads of the sequential workload
Payloads == SeqsUpTo(Candidates, MaxLen)

\* payloads of the concurrent workload
ConcPayloads == {<<>>, <<Rent>>, <<Pay1, Gift>>}

RowOf(id, t) == MkRow(id, InsertParams(t))

\* stores left by earlier replaceAll calls
InitStores ==
  {[rows |-> {}, seq |-> 0],
   [rows |-> {RowOf(1, Rent)}, seq |-> 1],
   [rows |-> {RowOf(2, Pay1), RowOf(3, Gift)}, seq |-> 3]}

Init ==
  /\ usePg \in BOOLEAN
  /\ allowEmpty \in BOOLEAN
  /\ \E s \in InitStores :
       /\ db = [rows |-> IF usePg THEN {} ELSE s.rows,
                seq |-> IF usePg THEN 0 ELSE s.seq,
                inTxn |-> FALSE, saved |-> NoSaved]
       /\ pg = [rows |-> IF usePg THEN s.rows ELSE {},
                seq |-> IF usePg THEN s.seq ELSE 0,
                cl |-> [c \in Clients |-> FreshClient],
                idle |-> IF usePg THEN <<"c1">> ELSE <<>>,
                wait |-> <<>>, max |-> PoolSize]
       /\ csv = IF s.rows = {} THEN NoFile ELSE WriteFile(NoFile, DualCsv(s.rows))
       /\ csvOf = s.rows
  /\ req = [h \in Handlers |-> IdleReq]
  /\ served = 0
  /\ faults = MaxFaults
  /\ hist = NoHist
  /\ regens = 0
  /\ settings = NoSettings
  /\ imp = IdleImp
  /\ boot = Booted
  /\ NoWeb /\ NoDisk

\* one request at a time
Next ==
  \/ StartPost(1, Payloads)
  \/ PostStep(1)
  \/ PostFault(1)
  \/ List(1)

Spec == Init /\ [][Next]_vars

\* two request slots, overlapping in time
NextConc ==
  \E h \in Handlers :
    \/ StartPost(h, ConcPayloads)
    \/ PostStep(h)
    \/ PostFault(h)
    \/ List(h)

SpecConc == Init /\ [][NextConc]_vars

\* the network engine with more requests in flight than the pool has clients
InitPool ==
  /\ usePg = TRUE
  /\ allowEmpty \in BOOLEAN
  /\ \E s \in InitStores :
       /\ db = [rows |-> {}, seq |-> 0, inTxn |-> FALSE, saved |-> NoSaved]
       /\ pg = [rows |-> s.rows, seq |-> s.seq,
                cl |-> [c \in Clients |-> FreshClient],
                idle |-> <<"c1">>, wait |-> <<>>, max |-> SmallPool]
       /\ csv = IF s.rows = {} THEN NoFile ELSE WriteFile(NoFile, DualCsv(s.rows))
       /\ csvOf = s.rows
  /\ req = [h \in Handlers |-> IdleReq]
  /\ served = 0
  /\ faults = MaxFaults
  /\ hist = NoHist
  /\ regens = 0
  /\ settings = NoSettings
  /\ imp = IdleImp
  /\ boot = Booted
  /\ NoWeb /\ NoDisk

NextPool ==
  \E h \in Handlers :
    \/ StartPost(h, ConcPayloads)
    \/ PostStep(h)
    \/ PostFault(h)

SpecPool == InitPool /\ [][NextPool]_vars

\* payloads of the workload with sessions
AuthPayloads == {<<>>, <<Rent>>}

Modes == {"guest", "admin", "viewer"}
Passwords == {ADMIN_PASSWORD, "12345", NULL}

\* the slot of the client that logs in, logs out, changes its cookie and saves
Browser == 1

NextAuth ==
  \E h \in {Browser} :
    \/ \E mode \in Modes, pw \in Passwords : Login(h, mode, pw)
    \/ Logout(h)
    \/ SetCookie(h)
    \/ PostAuth(h, AuthPayloads)
    \/ PostStep(h)

SpecAuth == Init /\ [][NextAuth]_vars

\* the directories a process finds in `backups`: empty, filled by earlier
\* runs, or holding more than KeepBackups files
FoundDirs ==
  {{}, {Stamp(t) : t \in 0..18}, {Stamp(t) : t \in 3..22},
   {Stamp(t) : t \in {0, 2, 4, 6, 8, 11, 13, 15}},
   {Stamp(t) : t \in 1..24}}

\* the server is up on the file engine with DB_BACKUPS=1
InitBackup ==
  /\ usePg = FALSE
  /\ allowEmpty = FALSE
  /\ \E s \in InitStores :
       /\ db = [rows |-> s.rows, seq |-> s.seq, inTxn |-> FALSE, saved |-> NoSaved]
       /\ csv = IF s.rows = {} THEN NoFile ELSE WriteFile(NoFile, DualCsv(s.rows))
       /\ csvOf = s.rows
  /\ pg = [rows |-> {}, seq |-> 0, cl |-> [c \in Clients |-> FreshClient],
           idle |-> <<>>, wait |-> <<>>, max |-> PoolSize]
  /\ req = [h \in Handlers |-> IdleReq]
  /\ served = 0
  /\ faults = MaxFaults
  /\ hist = NoHist
  /\ regens = 0
  /\ settings = NoSettings
  /\ imp = IdleImp
  /\ boot = [Booted EXCEPT !.backups = TRUE]
  /\ NoWeb
  /\ backupDir \in FoundDirs
  /\ clock \in {0, 10, 23}
  /\ unlinked = {}
  /\ serverJs = Healthy /\ baks = {}

\* the runs of the backup timer
NextBackup ==
  \/ DoBackup
  \/ DoBackupFault

SpecBackup == InitBackup /\ [][NextBackup]_vars

\* the texts start.mjs can find in server.js
Texts == UNION {[1..n -> Pieces] : n \in 0..MaxText}

\* start.mjs is run over some server.js
InitRepair ==
  /\ usePg = FALSE
  /\ allowEmpty = FALSE
  /\ db = [rows |-> {}, seq |-> 0, inTxn |-> FALSE, saved |-> NoSaved]
  /\ pg = [rows |-> {}, seq |-> 0, cl |-> [c \in Clients |-> FreshClient],
           idle |-> <<>>, wait |-> <<>>, max |-> PoolSize]
  /\ req = [h \in Handlers |-> IdleReq]
  /\ served = 0
  /\ faults = MaxFaults
  /\ hist = NoHist
  /\ csv = NoFile
  /\ csvOf = {}
  /\ regens = 0
  /\ settings = NoSettings
  /\ imp = IdleImp
  /\ boot = [Booted EXCEPT !.pc = "probe"]
  /\ NoWeb
  /\ backupDir = {} /\ clock = 0 /\ unlinked = {}
  /\ serverJs \in Texts
  /\ baks = {}

NextRepair ==
  \/ Repair
  \/ RepairFault
  \/ Duplicate

SpecRepair == InitRepair /\ [][NextRepair]_vars

\* payloads of the workload with detached regenerate calls
RegenPayloads ==
  {<<>>, <<Rent>>, <<Pay1, Gift>>, <<Pay1, NullEntry>>,
   <<Obj("expenditure", CommaName, D2, Num(5), NULL), Pay1>>}

\* one request at a time, and the detached regenerate calls
NextRegen ==
  \/ StartPost(1, RegenPayloads)
  \/ PostStep(1)
  \/ PostFault(1)
  \/ RegenStep
  \/ RegenFault

SpecRegen == Init /\ [][NextRegen]_vars

\* payloads of the workload with exports
ExportPayloads ==
  {<<>>, <<Rent>>, <<Pay1, Gift>>, <<Gift, Rent>>,
   <<Obj("expenditure", CommaName, D2, Num(5), NULL), Pay1>>,
   <<Obj("income", BreakName, D1, Num(7), "alice"), Rent>>}

\* one request at a time: saves, lists and exports
NextExport ==
  \/ StartPost(1, ExportPayloads)
  \/ PostStep(1)
  \/ PostFault(1)
  \/ List(1)
  \/ Export(1)

SpecExport == Init /\ [][NextExport]_vars

\* stores of the import version: saved through its bulk replace, which
\* accepts any non-empty name
ImportStores ==
  {[rows |-> {}, seq |-> 0],
   [rows |-> {RowOf(1, Rent)}, seq |-> 1],
   [rows |-> {RowOf(2, [Pay1 EXCEPT !.createdBy = NULL, !.updatedBy = NULL]),
              RowOf(3, Gift)}, seq |-> 3],
   [rows |-> {RowOf(1, Obj("expenditure", CommaName, D2, Num(5), NULL)),
              RowOf(2, [Pay1 EXCEPT !.createdBy = NULL, !.updatedBy = NULL])},
    seq |-> 2]}

\* the import version is up; updated-financial-data.csv is absent or is the
\* text regenerateDualCsv writes for one of the stores
InitImport ==
  /\ usePg = FALSE
  /\ allowEmpty = FALSE
  /\ \E s \in ImportStores :
       db = [rows |-> s.rows, seq |-> s.seq, inTxn |-> FALSE, saved |-> NoSaved]
  /\ pg = [rows |-> {}, seq |-> 0, cl |-> [c \in Clients |-> FreshClient],
           idle |-> <<>>, wait |-> <<>>, max |-> PoolSize]
  /\ req = [h \in Handlers |-> IdleReq]
  /\ served = 0
  /\ faults = MaxFaults
  /\ hist = NoHist
  /\ \/ csv = NoFile /\ csvOf = {}
     \/ \E s \in ImportStores :
          csv = WriteFile(NoFile, DualCsv(s.rows)) /\ csvOf = s.rows
  /\ regens = 0
  /\ \E done \in BOOLEAN : settings = [done |-> done, saved |-> FALSE]
  /\ imp = IdleImp
  /\ boot = Booted
  /\ NoWeb /\ NoDisk

\* one import at a time: through the endpoint, or oneTimeCsvImport(true)
NextImport ==
  \/ \E force \in BOOLEAN : ImportStart(force)
  \/ ImportStep
  \/ ImportFault

SpecImport == InitImport /\ [][NextImport]_vars

\* the three columns of one side of a hand-written line: complete, without
\* name, with a blank name, without date, without amount, with a word, with
\* digits followed by a letter, or with a date in the amount column
SideTexts ==
  {<<<<"Rent">>, Chars(D1), <<"5">>>>,
   <<<<"Pay">>, Chars(D2), <<"-", "1", "0">>>>,
   <<<<>>, <<>>, <<>>>>,
   <<<<>>, Chars(D1), <<"5">>>>,
   <<<<" ">>, Chars(D1), <<"5">>>>,
   <<<<"Rent">>, <<>>, <<"5">>>>,
   <<<<"Rent">>, Chars(D1), <<>>>>,
   <<<<"Rent">>, Chars(D1), <<"Pay">>>>,
   <<<<"Rent">>, Chars(D1), <<"5", "A">>>>,
   <<<<"Rent">>, Chars(D1), Chars(D2)>>}

\* a data line in the layout of the file: columns 0-2, two empty columns,
\* columns 5-7
DataLine(x, y) ==
  x[1] \o <<",">> \o x[2] \o <<",">> \o x[3] \o Commas(3)
    \o y[1] \o <<",">> \o y[2] \o <<",">> \o y[3] \o Commas(5)

\* updated-financial-data.csv written by hand: the two header lines and one
\* data line, or two data lines around a blank line
SideFiles ==
  {<<Header1, Header2, DataLine(x, y)>> : x, y \in SideTexts}
    \cup {<<Header1, Header2, DataLine(x, x), <<" ">>, DataLine(y, x)>> :
            x, y \in SideTexts}

\* the import version is up over a hand-written file
InitSides ==
  /\ usePg = FALSE
  /\ allowEmpty = FALSE
  /\ db = [rows |-> {RowOf(1, Rent)}, seq |-> 1, inTxn |-> FALSE, saved |-> NoSaved]
  /\ pg = [rows |-> {}, seq |-> 0, cl |-> [c \in Clients |-> FreshClient],
           idle |-> <<>>, wait |-> <<>>, max |-> PoolSize]
  /\ req = [h \in Handlers |-> IdleReq]
  /\ served = 0
  /\ faults = MaxFaults
  /\ hist = NoHist
  /\ \E f \in SideFiles : csv = WriteFile(NoFile, f)
  /\ csvOf = {}
  /\ regens = 0
  /\ settings = NoSettings
  /\ imp = IdleImp
  /\ boot = Booted
  /\ NoWeb /\ NoDisk

SpecSides == InitSides /\ [][NextImport]_vars

\* tables found at startup: written by this version (index present), or by
\* an earlier version without the index, which stored duplicates
BootTables ==
  {[rows |-> {}, seq |-> 0, index |-> FALSE],
   [rows |-> {RowOf(1, Rent)}, seq |-> 1, index |-> TRUE],
   [rows |-> {RowOf(1, Pay1), RowOf(2, Pay1Str), RowOf(3, Gift)}, seq |-> 3,
    index |-> FALSE],
   [rows |-> {RowOf(1, Rent), RowOf(2, Pay1), RowOf(3, Rent), RowOf(4, Pay1Str)},
    seq |-> 4, index |-> FALSE]}

NoTable == [rows |-> {}, seq |-> 0, index |-> FALSE]

\* the process starts: the environment is read, nothing has run
InitBoot ==
  /\ allowEmpty = FALSE
  /\ \E url, migrate, backups, fileExists \in BOOLEAN :
     \E pt \in IF url THEN BootTables ELSE {NoTable} :
     \E st \in IF fileExists THEN BootTables ELSE {NoTable} :
       /\ (migrate => url) /\ (backups => ~url)
       /\ usePg = url
       /\ db = [rows |-> st.rows, seq |-> st.seq, inTxn |-> FALSE, saved |-> NoSaved]
       /\ pg = [rows |-> pt.rows, seq |-> pt.seq,
                cl |-> [c \in Clients |-> FreshClient], idle |-> <<>>,
                wait |-> <<>>, max |-> PoolSize]
       /\ boot = [Booted EXCEPT !.pc = "probe", !.url = url, !.migrate = migrate,
                                !.backups = backups, !.fileExists = fileExists,
                                !.pgIndex = pt.index, !.sqIndex = st.index]
  /\ req = [h \in Handlers |-> IdleReq]
  /\ served = 0
  /\ faults = MaxFaults
  /\ hist = NoHist
  /\ csv = NoFile
  /\ csvOf = {}
  /\ regens = 0
  /\ settings = NoSettings
  /\ imp = IdleImp
  /\ NoWeb /\ NoDisk

\* the startup chain, then one request at a time
NextBoot ==
  \/ ChooseEngine
  \/ InitDbPg
  \/ InitDbSqlite
  \/ LogDbStatus
  \/ FirstBackup
  \/ LateIndex
  \/ ChainFault
  \/ Migrate
  \/ MigrateFault
  \/ Listen
  \/ /\ boot.pc = "up"
     /\ \/ StartPost(1, ConcPayloads)
        \/ PostStep(1)
        \/ PostFault(1)
        \/ List(1)

SpecBoot == InitBoot /\ [][NextBoot]_vars

(***************************************************************************)
(* Claims                                                                  *)
(***************************************************************************)
\* what the specification takes a valid candidate to be
PassesValidation(t) ==
  /\ t.obj
  /\ t.type \in {"income", "expenditure"}
  /\ t.name # ""
  /\ t.date # ""
  /\ Amt(t).k = "num"

CandTuple(t) == <<t.type, t.name, t.date, Amt(t).v>>

ValidIdx(tx) == {i \in 1..Len(tx) : PassesValidation(tx[i])}

\* the valid candidates that no earlier valid candidate of the payload equals
\* on (type, name, date, amount)
FirstIdx(tx) ==
  {i \in ValidIdx(tx) :
     \A j \in ValidIdx(tx) : j < i => CandTuple(tx[j]) # CandTuple(tx[i])}

ExpectedTuples(tx) == {CandTuple(tx[i]) : i \in FirstIdx(tx)}

\* the candidates I of tx by date descending, later submission first
RECURSIVE ExpectedFrom(_, _)
ExpectedFrom(tx, I) ==
  IF I = {} THEN <<>>
  ELSE LET m == CHOOSE i \in I : \A j \in I \ {i} :
                  \/ DateRank(tx[i].date) > DateRank(tx[j].date)
                  \/ DateRank(tx[i].date) = DateRank(tx[j].date) /\ i > j
       IN  <<CandTuple(tx[m])>> \o ExpectedFrom(tx, I \ {m})

ExpectedList(tx) == ExpectedFrom(tx, FirstIdx(tx))

OutTuples(out) ==
  [k \in 1..Len(out) |-> <<out[k].type, out[k].name, out[k].date, out[k].amount>>]

Unmap(o) ==
  [id |-> o.id, type |-> o.type, name |-> o.name, date |-> o.date,
   amount |-> o.amount, created_by |-> o.createdBy, updated_by |-> o.updatedBy]

OutRows(out) == {Unmap(out[k]) : k \in 1..Len(out)}

StoredTuples == {Tuple(r) : r \in Store}

PostDone(h) == req[h].op = "post" /\ req[h].pc = "done" /\ req[h].arr
ListDone(h) == req[h].op = "list" /\ req[h].pc = "done" /\ req[h].code = 200

\* every table state a connection can read or restore
AllTables ==
  {db.rows, db.saved.rows, pg.rows} \cup {PgView(pg, c) : c \in Clients}

\* C1: a list that follows a successful replaceAll, with no replaceAll accepted
\* in between, returns exactly the valid candidates of the payload, one per
\* (type, name, date, amount), ordered by date descending then id descending.
C1_ReplaceThenList ==
  (ListDone(1) /\ hist.ok) =>
     LET out == req[1].out
     IN  /\ OutTuples(out) = ExpectedList(hist.tx)
         /\ \A k \in 1..(Len(out) - 1) :
              \/ DateRank(out[k].date) > DateRank(out[k + 1].date)
              \/ /\ DateRank(out[k].date) = DateRank(out[k + 1].date)
                 /\ out[k].id > out[k + 1].id

\* a list of two rows of the same date returned after a two-candidate replaceAll
C1_Witness ==
  /\ ListDone(1) /\ hist.ok
  /\ Len(hist.tx) = 2 /\ Len(req[1].out) = 2
  /\ req[1].out[1].date = req[1].out[2].date

\* C2: a replaceAll, alone in flight, whose DELETE, INSERT or COMMIT failed
\* answers 500 and leaves the stored rows exactly as they were when it was
\* accepted, with no transaction left open.
C2_FailureRestoresStore ==
  (PostDone(1) /\ req[1].failed \in {{"delete"}, {"insert"}, {"commit"}}) =>
     /\ Store = req[1].pre
     /\ req[1].code = 500
     /\ IF usePg THEN \A c \in Clients : pg.cl[c].st = "idle" ELSE ~db.inTxn

\* the COMMIT failed after the delete and an insert, over a non-empty store
C2_Witness ==
  /\ PostDone(1) /\ req[1].failed = {"commit"}
  /\ req[1].pre # {} /\ ValidIdx(req[1].tx) # {}
  /\ Store = req[1].pre

\* C3: with one replaceAll and one list accepted and no storage failure, the
\* list returns the rows stored before the replaceAll or the rows stored after
\* it, whatever the interleaving.
C3_ReadSeesPreOrPost ==
  \A g, h \in Handlers :
    (served = 2 /\ faults = MaxFaults /\ PostDone(g) /\ ListDone(h)) =>
       OutRows(req[h].out) \in {req[g].pre, Store}

\* C4: after two replaceAll calls with non-empty valid payloads have both
\* returned (no storage failure), the stored tuples are the deduplicated
\* candidates of one of the two payloads.
C4_LastCommitWins ==
  (/\ served = 2 /\ faults = MaxFaults
   /\ \A h \in Handlers :
        /\ PostDone(h) /\ Len(req[h].tx) > 0
        /\ \A i \in 1..Len(req[h].tx) : PassesValidation(req[h].tx[i])) =>
     \E h \in Handlers : StoredTuples = ExpectedTuples(req[h].tx)

\* C5: replaceAll of an empty array over a non-empty store, override unset and
\* no statement failing, answers 400, leaves the rows unchanged and does not
\* call regenerateDualCsv.
C5_EmptySaveRefused ==
  (/\ PostDone(1) /\ Len(req[1].tx) = 0
   /\ ~allowEmpty /\ req[1].pre # {} /\ req[1].failed = {}) =>
     req[1].code = 400 /\ Store = req[1].pre /\ ~req[1].regen

C5_Witness ==
  /\ PostDone(1) /\ Len(req[1].tx) = 0
  /\ ~allowEmpty /\ req[1].pre # {} /\ req[1].failed = {}
  /\ req[1].code = 400

\* C6: replaceAll of an empty array with the override set, no statement
\* failing, answers 200 and leaves the store empty.
C6_EmptySaveWithOverride ==
  (PostDone(1) /\ Len(req[1].tx) = 0 /\ allowEmpty /\ req[1].failed = {}) =>
     req[1].code = 200 /\ Store = {}

C6_Witness ==
  /\ PostDone(1) /\ Len(req[1].tx) = 0 /\ allowEmpty /\ req[1].failed = {}
  /\ req[1].pre # {} /\ Store = {}

\* C7: after a successful replaceAll, each tuple of a valid candidate is
\* stored in exactly one row, which carries the createdBy/updatedBy of the
\* first candidate with that tuple; and a payload made only of valid
\* candidates, colliding or not, succeeds when no storage failure occurs.
C7_FirstDuplicateWins ==
  /\ (PostDone(1) /\ req[1].code = 200) =>
       \A i \in FirstIdx(req[1].tx) :
          LET hits == {r \in Store : Tuple(r) = CandTuple(req[1].tx[i])}
          IN  /\ Cardinality(hits) = 1
              /\ \A r \in hits : /\ r.created_by = req[1].tx[i].createdBy
                                 /\ r.updated_by = req[1].tx[i].updatedBy
  /\ (/\ PostDone(1) /\ Len(req[1].tx) > 0 /\ faults = MaxFaults
      /\ \A i \in 1..Len(req[1].tx) : PassesValidation(req[1].tx[i])) =>
       req[1].code = 200

\* two candidates with one tuple and different authors were submitted
C7_Witness ==
  /\ PostDone(1) /\ req[1].code = 200 /\ Len(req[1].tx) = 2
  /\ ValidIdx(req[1].tx) = {1, 2}
  /\ CandTuple(req[1].tx[1]) = CandTuple(req[1].tx[2])
  /\ req[1].tx[1].createdBy # req[1].tx[2].createdBy
  /\ Cardinality(Store) = 1

\* C8: a replaceAll of a non-empty array, no storage failure occurring,
\* answers 200 and stores every valid candidate of the payload, whatever
\* invalid candidates the payload also holds, on both engines.
C8_InvalidSkipped ==
  (PostDone(1) /\ Len(req[1].tx) > 0 /\ faults = MaxFaults) =>
     req[1].code = 200 /\ StoredTuples = ExpectedTuples(req[1].tx)

\* C9: no table state holds two rows with the same (type, name, date, amount),
\* and an INSERT whose tuple is already visible completes without an error
\* and adds no row.
Unique(rows) == \A r1, r2 \in rows : Tuple(r1) = Tuple(r2) => r1 = r2

ViewOf(h) == IF usePg THEN PgView(pg, req[h].cli) ELSE db.rows

ConflictPending(h) ==
  /\ req[h].op = "post" /\ req[h].pc = "insert"
  /\ Conflicts(ViewOf(h), InsertParams(req[h].tx[req[h].i]))

RegenEnds == regens' < regens

\* C11: a replaceAll whose COMMIT resolved answers 200 in the same step, with
\* its regenerate call still pending; and the step in which a regenerate call
\* ends, with or without a failure, changes no request's response or position
\* and no stored row.
C11_RegenDetached ==
  /\ [][(/\ req[1].pc = "commit" /\ req'[1] # req[1]
         /\ "commit" \notin req'[1].failed) =>
            (/\ req'[1].pc = "done" /\ req'[1].code = 200
             /\ regens' = regens + 1)]_vars
  /\ [][RegenEnds =>
          (/\ req' = req /\ db' = db /\ served' = served
           /\ pg'.rows = pg.rows /\ pg'.cl = pg.cl)]_vars

\* the one replaceAll answered 200, its regenerate call failed and left the
\* artifact of the earlier store
C11_Witness ==
  /\ served = 1 /\ PostDone(1) /\ req[1].code = 200 /\ req[1].failed = {}
  /\ regens = 0 /\ faults < MaxFaults
  /\ csvOf # Store

\* the columns of a line, and the text of row number i of a list (or blanks)
ColumnsOf(line, from) == SubSeq(Split(line), from, from + 2)

FieldsOf(list, i) ==
  IF i > Len(list) THEN <<<<>>, <<>>, <<>>>>
  ELSE <<Chars(list[i].name), DateChars(list[i].date), NumChars(list[i].amount)>>

\* C12: the artifact a regenerate call writes from the rows its query
\* returned is the two header lines followed by max(E, I) data lines; line i
\* holds expenditure i (by ascending id) in columns 1-3 and income i in
\* columns 6-8, blank where the side has fewer rows.
C12_DualLayout ==
  [][(RegenEnds /\ faults' = faults /\ csv' # csv) =>
       LET E == OfType(csvOf', "expenditure")
           I == OfType(csvOf', "income")
           L == csv'.lines
       IN  /\ Len(L) = 2 + Max(Len(E), Len(I))
           /\ L[1] = Header1 /\ L[2] = Header2
           /\ \A i \in 1..(Len(L) - 2) :
                /\ ColumnsOf(L[i + 2], 1) = FieldsOf(E, i)
                /\ ColumnsOf(L[i + 2], 6) = FieldsOf(I, i)]_vars

\* C13: with no failure, a regenerate call that reads the rows the artifact
\* was written from leaves the artifact as it is, and the artifact is always
\* the complete text of one call.
C13_RegenIdempotent ==
  /\ []((faults = MaxFaults /\ csv.exists) => csv.lines = DualCsv(csvOf))
  /\ [][(/\ RegenEnds /\ faults = MaxFaults /\ faults' = faults
         /\ csv.exists /\ csvOf' = csvOf) => csv' = csv]_vars

\* two calls were pending together; one has written the artifact of the
\* current store and the other is still to run
C13_Witness ==
  /\ served = 2 /\ hist.ok /\ faults = MaxFaults
  /\ regens = 1 /\ csv.exists /\ csvOf = Store
  /\ Store # {} /\ req[1].pre # Store

ImpDone == imp.pc = "done"

\* C14: after oneTimeCsvImport(true) has run, with no failure, on the artifact
\* regenerate wrote for the stored rows, the stored (type, name, date, amount)
\* tuples are those stored before.
C14_RoundTrip ==
  (/\ ImpDone /\ imp.force /\ imp.failed = {}
   /\ csv.exists /\ csvOf = imp.pre) =>
     StoredTuples = {Tuple(r) : r \in imp.pre}

\* C15: an import through the endpoint that finds the marker, no statement
\* failing, answers 409 with skipped=true and the reason "already", runs no
\* DELETE and no INSERT and leaves the rows as they were; an import that
\* succeeded leaves the marker committed, and a committed marker stays.
C15_SecondImportSkipped ==
  /\ []((ImpDone /\ ~imp.force /\ imp.preDone /\ imp.failed = {}) =>
          (/\ imp.code = 409
           /\ imp.res.kind = "skipped" /\ imp.res.reason = "already"
           /\ imp.ran \cap {"delete", "insert"} = {}
           /\ db.rows = imp.pre))
  /\ []((ImpDone /\ imp.res.kind = "inserted") => (settings.done /\ ~db.inTxn))
  /\ [][(settings.done /\ ~db.inTxn) => settings'.done]_vars

\* the second of two imports through the endpoint, after the first inserted
\* rows
C15_Witness ==
  /\ served = 2 /\ ImpDone /\ ~imp.force /\ imp.preDone
  /\ imp.pre # {} /\ imp.code = 409

\* C16: an import, alone in flight, whose DELETE, an INSERT, the marker write
\* or the COMMIT failed leaves the rows and the marker as they were when it
\* was called, no transaction open, and does not report success.
C16_ImportRollsBack ==
  (ImpDone /\ imp.failed \in {{"delete"}, {"insert"}, {"mark"}, {"commit"}}) =>
     /\ db.rows = imp.pre
     /\ settings.done = imp.preDone
     /\ ~db.inTxn
     /\ imp.res.kind = "skipped"

\* the COMMIT failed after the delete, the inserts and the marker write
C16_Witness ==
  /\ ImpDone /\ imp.failed = {"commit"}
  /\ imp.pre # {} /\ Len(imp.todo) > 0 /\ ~imp.preDone
  /\ db.rows = imp.pre /\ ~settings.done

\* C17 as claimed: every response is a success carrying the count, or a 409
\* carrying skipped=true and a reason.
C17_SkippedIs409 ==
  ImpDone =>
    \/ imp.code = 200 /\ imp.res.kind = "inserted"
    \/ imp.code = 409 /\ imp.res.kind = "skipped" /\ imp.res.reason # ""

\* C17 as amended: every response is a 200 with the inserted count; a 409 with
\* skipped=true when the marker was found; a 200 with skipped=true and a
\* reason when the file is missing, holds no data rows or the import failed;
\* or a 500 when the marker query or BEGIN rejected.
C17_SkippedStatus ==
  ImpDone =>
    \/ imp.code = 200 /\ imp.res.kind = "inserted"
    \/ /\ imp.code = 409 /\ imp.res.kind = "skipped" /\ imp.res.reason = "already"
       /\ imp.preDone
    \/ /\ imp.code = 200 /\ imp.res.kind = "skipped"
       /\ imp.res.reason \in {"file not found", "no data rows", "failed"}
    \/ /\ imp.code = 500 /\ imp.res.kind = "error"
       /\ imp.failed \cap {"check", "begin"} # {}

\* the endpoint answered 200 to an import skipped because the file is missing
C17_Witness ==
  /\ ImpDone /\ ~imp.force /\ imp.code = 200
  /\ imp.res.kind = "skipped" /\ imp.res.reason = "file not found"

\* the table of the engine in use
ActiveIndex == IF usePg THEN boot.pgIndex ELSE boot.sqIndex

\* C18: with no failure other than that of the index over duplicates, schema
\* initialisation over a table holding duplicate groups does not
\* end the process, ends with the unique index present and leaves of each
\* group the row with the lowest id, on either engine.
C18_DedupeAtStartup ==
  (/\ boot.pc \in {"log", "listen", "exit"} /\ HasDuplicates(boot.pre)
   /\ faults = MaxFaults) =>
     /\ boot.pc # "exit"
     /\ ActiveIndex
     /\ Store = Dedupe(boot.pre)

\* C19: once the engine is chosen, usePg is DATABASE_URL-set-and-probe-
\* succeeded and never changes, and no step writes to the other engine.
C19_EngineFixed ==
  /\ [](boot.pc # "probe" => usePg = (boot.url /\ boot.probe))
  /\ [][boot.pc # "probe" =>
          /\ usePg' = usePg
          /\ IF usePg THEN db' = db ELSE pg' = pg]_vars

\* DATABASE_URL was set, the probe failed, and a replaceAll was then served
\* from the file engine
C19_Witness ==
  /\ boot.url /\ ~boot.probe /\ boot.pc = "up"
  /\ PostDone(1) /\ req[1].code = 200 /\ db.rows # boot.pre

MigDone == boot.pc \in {"log", "listen", "up"} /\ served = 0

TuplesOf(rows) == {Tuple(r) : r \in rows}

\* C20: when startup has passed the migration, the network table differs from
\* what initDb left only if the migration was enabled, the network engine is
\* in use and the table was empty; it then holds one row per row of the
\* SQLite table, or no row, with no transaction left that could still commit
\* rows; and a failed migration statement does not end the process.
C20_MigrationAllOrNothing ==
  /\ (MigDone /\ usePg /\ pg.rows \notin {boot.pre, Dedupe(boot.pre)}) =>
        /\ boot.migrate /\ boot.preMig = {} /\ boot.pre = {}
        /\ TuplesOf(pg.rows) = TuplesOf(db.rows)
        /\ Cardinality(pg.rows) = Cardinality(db.rows)
  /\ (MigDone /\ ~usePg) => db.rows = boot.pre
  /\ (boot.failed \cap MigPcs # {}) => boot.pc # "exit"
  /\ (MigDone /\ usePg) => \A c \in Clients : pg.cl[c].st # "txn"

\* an INSERT of the migration failed after another had succeeded, and the
\* server is listening with the network table empty
C20_Witness ==
  /\ boot.pc = "up" /\ usePg /\ "mig-insert" \in boot.failed
  /\ boot.i > 1 /\ pg.rows = {} /\ db.rows # {}

\* C24: with the override unset, a replaceAll whose payload holds no valid
\* candidate (an empty array, or only invalid candidates) does not leave a
\* store that held rows empty.
C24_NoWipeByInvalid ==
  (/\ PostDone(1) /\ ~allowEmpty
   /\ ValidIdx(req[1].tx) = {} /\ req[1].pre # {}) =>
     Store # {}

\* the rows the pending DELETE of request h removes
DeleteTargets(h) ==
  IF usePg THEN {r \in pg.rows : r.id \in req[h].snap} ELSE db.rows

\* the pending statement of request h completes in this step without rejecting
Completes(h) == req'[h] # req[h] /\ req'[h].failed = req[h].failed

\* C25: with the override unset, the DELETE of a replaceAll with an empty
\* payload never removes a row: the store it acts on is the store its count
\* query found empty.
C25_EmptySaveNeverDeletes ==
  [][\A h \in Handlers :
       (/\ ~allowEmpty /\ req[h].op = "post" /\ Len(req[h].tx) = 0
        /\ req[h].pc = "delete" /\ Completes(h)) =>
          DeleteTargets(h) = {}]_vars

\* C26: the ROLLBACK of a replaceAll that failed before it changed anything
\* (its count query or its BEGIN rejected) changes no table state another
\* request can read; and when two overlapping calls both answered 500 the
\* store is what one of them found.
C26_FailedSaveNoEffect ==
  /\ [][\A h \in Handlers :
          (/\ req[h].op = "post" /\ req[h].pc = "rollback" /\ req'[h] # req[h]
           /\ req[h].failed \subseteq {"count", "begin"}) =>
             /\ Store' = Store
             /\ db'.rows = db.rows
             /\ \A c \in Clients : PgView(pg', c) = PgView(pg, c)]_vars
  /\ []((/\ served = 2
         /\ \A h \in Handlers : PostDone(h) /\ req[h].code = 500) =>
           \E h \in Handlers : Store = req[h].pre)

\* request h is between its BEGIN and the end of its transaction
InTransaction(h) ==
  /\ req[h].op = "post" /\ req[h].txc # NoClient
  /\ req[h].pc \in {"delete", "insert", "commit", "rollback"}

\* C27: on the network engine every statement a replaceAll issues after its
\* BEGIN runs on the client its BEGIN ran on, and no statement of another
\* request runs on that client before the transaction has ended.
C27_OneTransaction ==
  [][usePg =>
       \A h \in Handlers :
          (InTransaction(h) /\ req'[h] # req[h]) =>
             /\ req[h].cli = req[h].txc
             /\ \A o \in Handlers \ {h} :
                  (InFlight(o) /\ req[o].op = "post") => req[o].cli # req[h].txc]_vars

\* the insert loop from candidate i on a connection of the file engine that
\* no other request uses: [err, db]
RECURSIVE SqLoop(_, _, _)
SqLoop(d, tx, i) ==
  IF i > Len(tx) THEN SqOk(d)
  ELSE IF ~tx[i].obj THEN SqErr(d)
  ELSE IF Skips(tx[i]) THEN SqLoop(d, tx, i + 1)
  ELSE SqLoop(SqInsert(d, InsertParams(tx[i])).db, tx, i + 1)

\* the insert loop from candidate i on client c of the network engine
RECURSIVE PgLoop(_, _, _, _)
PgLoop(g, c, tx, i) ==
  IF i > Len(tx) THEN PgOk(g)
  ELSE IF ~tx[i].obj THEN PgErr(g)
  ELSE IF Skips(tx[i]) THEN PgLoop(g, c, tx, i + 1)
  ELSE LET x == PgInsert(g, c, InsertParams(tx[i]))
       IN  IF x.err THEN x ELSE PgLoop(x.pg, c, tx, i + 1)

\* outcome and stored rows of one replaceAll of tx over the rows S, run alone
\* and without a storage failure, on each engine
SqReplace(S, tx) ==
  LET d0 == [rows |-> {}, seq |-> Cardinality(S) + 1, inTxn |-> TRUE,
             saved |-> [rows |-> S, seq |-> 0]]
      x  == SqLoop(d0, tx, 1)
  IN  IF ~allowEmpty /\ Len(tx) = 0 /\ S # {} THEN [code |-> 400, rows |-> S]
      ELSE IF x.err THEN [code |-> 500, rows |-> S]
      ELSE [code |-> 200, rows |-> x.db.rows]

PgReplace(S, tx) ==
  LET g0 == [rows |-> S, seq |-> Cardinality(S) + 1,
             cl |-> [c \in Clients |-> FreshClient], idle |-> <<>>,
             wait |-> <<>>, max |-> PoolSize]
      g1 == PgDelete(PgBegin(g0, "c1").pg, "c1", Ids(S)).pg
      x  == PgLoop(g1, "c1", tx, 1)
  IN  IF ~allowEmpty /\ Len(tx) = 0 /\ S # {} THEN [code |-> 400, rows |-> S]
      ELSE IF x.err THEN [code |-> 500, rows |-> S]
      ELSE [code |-> 200, rows |-> PgCommit(x.pg, "c1").pg.rows]

\* a row without its id
Fields(r) == <<r.type, r.name, r.date, r.amount, r.created_by, r.updated_by>>

\* C28: a replaceAll run alone without a storage failure ends, on the engine
\* in use, with the outcome and the stored (type, name, date, amount,
\* createdBy, updatedBy) that the other engine produces for the same store
\* and payload.
C28_EnginesAgree ==
  (PostDone(1) /\ faults = MaxFaults) =>
     LET other == IF usePg THEN SqReplace(req[1].pre, req[1].tx)
                           ELSE PgReplace(req[1].pre, req[1].tx)
     IN  /\ req[1].code = other.code
         /\ {Fields(r) : r \in Store} = {Fields(r) : r \in other.rows}

\* C30: a regenerate call is started in exactly the steps in which a
\* replaceAll's COMMIT resolves (the call then answers 200), one call per
\* step; and when no replaceAll and no regenerate call is in flight and no
\* failure was injected, an existing artifact is the text regenerate builds
\* from the stored rows.
C30_RegenTracksStore ==
  /\ [][regens' > regens <=>
          (/\ req[1].pc = "commit" /\ req'[1].pc = "done"
           /\ req'[1].code = 200)]_vars
  /\ [][regens' > regens => regens' = regens + 1]_vars
  /\ []((/\ req[1].pc \notin StmtPcs /\ regens = 0
         /\ faults = MaxFaults /\ csv.exists) =>
           csv.lines = DualCsv(Store))

\* text.split('\n') without the empty piece after the last line break
RECURSIVE LinesOf(_)
LinesOf(cs) ==
  IF \A k \in 1..Len(cs) : cs[k] # "\n" THEN (IF cs = <<>> THEN <<>> ELSE <<cs>>)
  ELSE LET k == CHOOSE j \in 1..Len(cs) :
                  cs[j] = "\n" /\ \A m \in 1..(j - 1) : cs[m] # "\n"
       IN  <<SubSeq(cs, 1, k - 1)>> \o LinesOf(SubSeq(cs, k + 1, Len(cs)))

Reverse(s) == [k \in 1..Len(s) |-> s[Len(s) + 1 - k]]

ExportDone(h) == req[h].op = "export" /\ req[h].pc = "done" /\ req[h].code = 200

\* the stored rows by date ascending, then id ascending
Chronological(rs) ==
  \A j, k \in 1..Len(rs) :
     j < k => \/ DateRank(rs[j].date) < DateRank(rs[k].date)
              \/ DateRank(rs[j].date) = DateRank(rs[k].date) /\ rs[j].id < rs[k].id

\* C29: an export answers with the header line followed by exactly one line
\* per stored row, the rows taken by date ascending then id ascending and
\* each line beginning with its row's type; a list answers with the same rows
\* in the reverse order; and neither changes a stored row.
C29_ExportReversesList ==
  /\ [](ExportDone(1) =>
          LET L  == LinesOf(req[1].out)
              rs == Reverse(ListOrder(Store))
          IN  /\ Chronological(rs)
              /\ Len(L) = 1 + Cardinality(Store)
              /\ L[1] = SubSeq(ExportHeader, 1, Len(ExportHeader) - 1)
              /\ \A k \in 1..Len(rs) : L[k + 1][1] = rs[k].type)
  /\ [](ListDone(1) =>
          [k \in 1..Len(req[1].out) |-> Unmap(req[1].out[k])]
             = Reverse(ExportOrder(Store)))
  /\ [][(req'[1].op \in {"list", "export"} /\ req'[1] # req[1]) =>
          (db' = db /\ pg'.rows = pg.rows /\ pg'.cl = pg.cl)]_vars

\* client h's request is a replaceAll call that arrives in this step
PostArrives(h) ==
  /\ req[h].pc \in {"idle", "done"}
  /\ req'[h] # req[h]
  /\ req'[h].op = "post"
  /\ served' = served + 1

\* the session that becomes an editor session in this step
Elevated(s) ==
  /\ s \in DOMAIN sessions' /\ sessions'[s].role = "editor"
  /\ s \in DOMAIN sessions => sessions[s].role # "editor"

\* C22: a replaceAll call that arrives without an editor session (no cookie,
\* a cookie that names no session, a logged-out or a guest session) is
\* answered 403 in the step in which it arrives, with the store, the
\* transactions in progress, the artifact and the regeneration count
\* unchanged; and a session becomes an editor session only in a login with
\* mode admin and the admin password that is answered 200.
C22_EditorOnly ==
  [][/\ \A h \in Handlers :
          PostArrives(h) /\ ~RequireEditor(Session(jar[h]))
            => /\ req'[h].pc = "done" /\ req'[h].code = 403
               /\ ~req'[h].regen /\ req'[h].txc = NoClient
               /\ UNCHANGED <<db, pg, csv, csvOf, regens>>
      /\ \A s \in 1..MaxSessions :
          Elevated(s) => /\ login'.mode = "admin"
                         /\ login'.password = ADMIN_PASSWORD
                         /\ login'.code = 200]_vars

\* the files in the directory when the run at the new clock value has copied
\* the database
AfterCopy == backupDir \cup {Stamp(clock')}

Min(a, b) == IF a < b THEN a ELSE b

\* C23: a backup run in which nothing failed leaves at most 20 files in the
\* directory: of the files it found and the one it wrote it keeps the 20
\* with the latest timestamps (all of them when there are fewer) and removes
\* the others, every one of which is older than every file kept.
C23_KeepsNewestTwenty ==
  [][faults' = faults =>
       /\ backupDir' \subseteq AfterCopy
       /\ Cardinality(backupDir') = Min(KeepBackups, Cardinality(AfterCopy))
       /\ unlinked' = AfterCopy \ backupDir'
       /\ \A f \in backupDir', g \in unlinked' : TimeOf(g) < TimeOf(f)]_vars

\* a run with nothing failed has removed the oldest file of a full directory
C23_Witness ==
  /\ faults = MaxFaults
  /\ unlinked # {}
  /\ Cardinality(backupDir) = KeepBackups
  /\ Stamp(clock) \in backupDir

\* initDb() rejected: CREATE TABLE failed, or CREATE UNIQUE INDEX failed on
\* the file engine
InitDbRejected ==
  \/ "table" \in boot.failed
  \/ ~usePg /\ "index" \in boot.failed

\* the steps of the chain whose failure is caught where it happens
Swallowed == {"alter", "late-alter", "log", "backup", "late-index"}

\* C21: the server listens, and a request is accepted, only when initDb()
\* has resolved; when initDb() rejects the process exits at once, has
\* accepted no request and takes no further step; and the process exits for
\* no other reason, so a failed status log, backup or column addition leaves
\* startup going.
C21_StartupGate ==
  /\ [](/\ boot.pc \in {"listen", "up"} => ~InitDbRejected
        /\ served > 0 => boot.pc = "up" /\ ~InitDbRejected
        /\ InitDbRejected => boot.pc = "exit" /\ served = 0
        /\ boot.pc = "exit" => InitDbRejected /\ boot.failed \cap Swallowed = {})
  /\ [][boot.pc # "exit"]_vars

\* a request was served by a process in whose startup the status log, the
\* backup or a column addition had failed
C21_Witness ==
  /\ boot.pc = "up" /\ served > 0
  /\ boot.failed \cap Swallowed # {}

\* the marker as committed: inside a transaction, what ROLLBACK would restore
Committed == IF db.inTxn THEN settings.saved ELSE settings.done

\* the import has answered `skipped` for a reason other than the marker
SkippedOrFailed ==
  /\ imp.pc = "done" /\ imp.res.kind = "skipped" /\ imp.res.reason # "already"

\* C31: the committed marker changes only in the step in which the COMMIT of
\* an import succeeds, and then to present; an import that answered skipped
\* for a missing file, for no data rows, or after a failure and a ROLLBACK
\* that ran, leaves the marker as it found it; an import is answered `already
\* completed` only when not forced and the marker was set when it was called;
\* and a forced import over a file with data rows runs the import whatever
\* the marker, setting it when nothing fails.
C31_MarkerTracksCommit ==
  /\ [][Committed' # Committed =>
          /\ imp.pc = "commit" /\ imp'.res.kind = "inserted"
          /\ Committed' /\ ~db'.inTxn]_vars
  /\ [](/\ (SkippedOrFailed /\ "rollback" \notin imp.failed) =>
             settings.done = imp.preDone
        /\ (imp.pc = "done" /\ imp.res.reason = "already") =>
             ~imp.force /\ imp.preDone /\ imp.ran = {"check"}
        /\ (imp.force /\ imp.pc = "done" /\ csv.exists /\ Len(csv.lines) > 2
              /\ imp.failed = {}) =>
             imp.res.kind = "inserted" /\ settings.done /\ "delete" \in imp.ran)

\* an import set the marker, failed at COMMIT and rolled back: the
\* marker is absent again
C31_Witness ==
  /\ imp.pc = "done" /\ imp.res.reason = "failed"
  /\ "mark" \in imp.ran /\ "commit" \in imp.failed /\ "rollback" \in imp.ran
  /\ ~imp.preDone /\ ~settings.done

\* the text is a whole number: an optional sign, then digits only
IsNumeric(cs) ==
  LET first == IF cs # <<>> /\ cs[1] \in {"+", "-"} THEN 2 ELSE 1
  IN  /\ first <= Len(cs)
      /\ \A k \in first..Len(cs) : IsDigit(cs[k])

\* the side at columns k..k+2 has a name, a date and a numeric amount
Complete(cols, k) ==
  /\ Col(cols, k) # <<>> /\ Col(cols, k + 1) # <<>>
  /\ IsNumeric(Col(cols, k + 2))

\* what is to be inserted for one side: type, name, date and amount
Wanted(cols, k, ty) ==
  IF Complete(cols, k)
    THEN <<[type |-> ty, name |-> Text(Col(cols, k)), date |-> Text(Col(cols, k + 1)),
            amount |-> ParseFloat(Col(cols, k + 2)).v,
            created_by |-> NULL, updated_by |-> NULL]>>
    ELSE <<>>

\* the sides to be inserted of the lines after the two headers, in order
RECURSIVE WantedOf(_)
WantedOf(lines) ==
  IF lines = <<>> THEN <<>>
  ELSE Wanted(Split(Head(lines)), 0, "expenditure")
         \o Wanted(Split(Head(lines)), 5, "income")
         \o WantedOf(Tail(lines))

\* C32: an import that answered with a count has inserted, for every line
\* after the two header lines, the expenditure side when columns 1-3 hold a
\* name, a date and a numeric amount, and the income side when columns 6-8
\* do, each whatever the other side holds and nothing else; the table holds
\* these rows and the count is their number.
C32_SidesIndependent ==
  (imp.pc = "done" /\ imp.res.kind = "inserted") =>
     /\ imp.todo = WantedOf(SubSeq(csv.lines, 3, Len(csv.lines)))
     /\ imp.res.inserted = Len(imp.todo)
     /\ Cardinality(db.rows) = Len(imp.todo)
     /\ {Tuple(r) : r \in db.rows} = {Tuple(imp.todo[k]) : k \in 1..Len(imp.todo)}

\* the number of occurrences of the marker
RECURSIVE Occurrences(_)
Occurrences(text) ==
  IF text = <<>> THEN 0
  ELSE (IF Head(text) = Marker THEN 1 ELSE 0) + Occurrences(Tail(text))

\* t is the part of text before the second occurrence of the marker
BeforeSecond(t, text) ==
  /\ Len(t) < Len(text)
  /\ t = SubSeq(text, 1, Len(t))
  /\ text[Len(t) + 1] = Marker
  /\ Occurrences(t) = 1

\* C33: a run of the repair step in which nothing fails, over a server.js
\* holding the marker twice or more, writes a backup holding the text it
\* found and leaves in server.js the text before the second occurrence,
\* which holds the marker once; over a server.js holding the marker at most
\* once it changes neither server.js nor the backups; and no run changes
\* server.js without a backup of the text it found.
C33_RepairTrimsOnce ==
  [][clock' # clock =>
       /\ (faults' = faults /\ Occurrences(serverJs) >= 2) =>
             /\ baks' = baks \cup {[at |-> clock', content |-> serverJs]}
             /\ BeforeSecond(serverJs', serverJs)
             /\ Occurrences(serverJs') = 1
       /\ Occurrences(serverJs) <= 1 => UNCHANGED <<serverJs, baks>>
       /\ serverJs' # serverJs => \E b \in baks' : b.content = serverJs]_vars

\* a duplicated server.js was trimmed to its first copy and backed up
C33_Witness ==
  /\ faults = MaxFaults
  /\ serverJs = <<Marker, "app.listen(port)">>
  /\ \E b \in baks : b.content = serverJs \o serverJs
====
